---- MODULE Spec2Model ----
(***************************************************************************)
(* Muse v2 NFT + RWA marketplace (src/muse_marketplace.py), the keyed,     *)
(* multi-asset contract.  Every external method is one atomic action: the  *)
(* host ledger serialises application calls and discards a call whose      *)
(* approval program panics, so a rejected call is no step at all: the      *)
(* guard of an action is the conjunction of the method's Asserts and of    *)
(* the conditions under which none of its arithmetic panics.  `last`       *)
(* records the last accepted call and the inner transactions it emitted    *)
(* (payments in order, and the receiver of the asset transfer).            *)
(*                                                                         *)
(* AVM arithmetic is uint64: a subtraction below zero panics (the call is  *)
(* rejected).  Every product and sum of the values used here stays far     *)
(* below 2^64, so the overflow panic cannot occur within the bounds.       *)
(* Box reads (BoxGet) are taken to return the stored box.                  *)
(*                                                                         *)
(* The flat single-NFT contract (src/muse_marketplace_v2.py) is a second   *)
(* application with its own state, the variable flat; its methods are the  *)
(* v2_ actions and SpecFlat is its specification.                          *)
(***************************************************************************)
EXTENDS Integers, Sequences, FiniteSets, TLC

\* ---------------------------------------------------------------- constants
MUSE_FEE_BPS == 250
MAX_ROYALTY_BPS == 2000
BASIS_POINTS == 10000
ROUNDS_PER_MONTH == 777600
ANTI_SNIPE_ROUNDS == 75
BUYOUT_CREATOR_BPS == 9500
DECAY_DIVISOR == 100

FLAG_IS_RWA == 1
FLAG_RWA_AUTH == 2
FLAG_RWA_REDEEMED == 4
FLAG_ROYALTY_WAIVED == 8
FLAG_IN_AUCTION == 16
FLAG_COLLAB_PENDING == 32

\* ------------------------------------------------------------------- bounds
MaxSteps == 7

\* ------------------------------------------------------------- input domains
Accounts == {"alice", "bob"}
ZeroAddress == "zero"
AppAddress == "app"
Treasury == "treasury"
\* ids the host hands out for created assets, and the ids a call may name
\* (one more than is ever minted, so that calls on absent records occur)
AssetIds == {1}
CallIds == {1, 2}
ABORT == -1

\* (price, royalty_bps, floor_bps, decay_after_rounds, buyout_price)
MintArgs ==
    { <<999, 1000, 500, 10, 101>>,
      <<0, 1000, 0, 10, 0>>,
      <<999, 2001, 0, 0, 0>>,
      <<999, 0, 500, 10, 0>> }
\* (custodian, authenticator)
RwaRoles == { <<"alice", "bob">> }
\* the four (address, share_bps) slots offered to register_co_creators
SlotAddrs == <<"bob", "alice", "bob", ZeroAddress>>
ShareArgs == { <<5000, 2500, 1500, 1000>>, <<6000, 5000, 0, 0>> }
\* payment amounts offered to buy_nft / buy_out_royalty, and to place_bid
Amounts == {100, 101, 998, 999, 1000}
BidAmounts == {100, 150}
\* the accounts that mint
Creators == {"alice"}
Receivers == {AppAddress, "alice"}
Durations == {0, 100}
Reserves == {120}
RoundSteps == {50, 60 * ROUNDS_PER_MONTH}

VARIABLES
    nft,                    \* "NFT"+id boxes: asset id -> AssetRecord
    auc,                    \* "AUC"+id boxes: asset id -> AuctionRecord
    spl,                    \* "SPL"+id boxes: asset id -> 4 split slots
    rwa,                    \* "RWA"+id boxes: asset id -> RWARecord
    muse_treasury,
    total_volume,
    total_royalties_paid,
    nft_count,
    live_auctions,
    round,                  \* Global.round(), supplied by the host
    steps,                  \* number of steps taken so far (bounded)
    last,                   \* the last call and what it emitted
    flat                    \* global state of the flat single-NFT contract

vars == <<nft, auc, spl, rwa, muse_treasury, total_volume,
          total_royalties_paid, nft_count, live_auctions, round, steps, last,
          flat>>
boxes == <<nft, auc, spl, rwa>>
globals == <<muse_treasury, total_volume, total_royalties_paid, nft_count,
             live_auctions>>

\* ------------------------------------------------------------ bit-flag words
HasFlag(flags, f) == (flags \div f) % 2 = 1
BitwiseOrFlag(flags, f) == IF HasFlag(flags, f) THEN flags ELSE flags + f
\* Faulty variant: the flag is left as it is.
BitwiseAndNotFlag_leaving_flag(flags, f) == flags

BitwiseAndNotFlag(flags, f) == IF HasFlag(flags, f) THEN flags - f ELSE flags

RECURSIVE SumAmt(_)
SumAmt(s) == IF s = <<>> THEN 0 ELSE Head(s).amt + SumAmt(Tail(s))

Pay(to, amt) == [to |-> to, amt |-> amt]

\* ------------------------------------------------------------- call results
\* n numbers the accepted calls of a run, so that two equal calls in a row
\* are still two calls.
Call(op, a, caller, amount, pay, xfer, rbps) ==
    [n |-> steps + 1, op |-> op, asset |-> a, caller |-> caller,
     amount |-> amount, pay |-> pay, xfer |-> xfer, rbps |-> rbps]

\* ---------------------------------------------------------- royalty engine
\* Faulty variant: the waiver flag is not consulted.
current_royalty_bps_ignoring_waiver(boxmap, asset_id, now) ==
    IF asset_id \notin DOMAIN boxmap THEN ABORT
    ELSE
    LET royalty == boxmap[asset_id].royalty_bps
        floor_bps == boxmap[asset_id].floor_bps
        decay_start == boxmap[asset_id].decay_start
    IN  IF decay_start = 0 THEN royalty
        ELSE IF now < decay_start THEN royalty
        ELSE
        LET decay_ratio == (now - decay_start) \div ROUNDS_PER_MONTH
        IN  IF royalty < floor_bps THEN ABORT
            ELSE
            LET cut == ((royalty - floor_bps) * decay_ratio) \div DECAY_DIVISOR
            IN  IF royalty < cut THEN ABORT
                ELSE IF royalty - cut > floor_bps THEN royalty - cut
                     ELSE floor_bps

\* The value returned, or ABORT where the subroutine panics.  `decayed` is
\* an expression evaluated only in the innermost branch, so its two
\* subtractions can panic only once now >= decay_start > 0 and the waiver
\* flag is clear.
current_royalty_bps(boxmap, asset_id, now) ==
    IF asset_id \notin DOMAIN boxmap THEN ABORT
    ELSE
    LET flags_val == boxmap[asset_id].flags
        royalty == boxmap[asset_id].royalty_bps
        floor_bps == boxmap[asset_id].floor_bps
        decay_start == boxmap[asset_id].decay_start
    IN  IF HasFlag(flags_val, FLAG_ROYALTY_WAIVED) THEN 0
        ELSE IF decay_start = 0 THEN royalty
        ELSE IF now < decay_start THEN royalty
        ELSE
        LET rounds_elapsed == now - decay_start
            decay_ratio == rounds_elapsed \div ROUNDS_PER_MONTH
        IN  IF royalty < floor_bps THEN ABORT       \* royalty - floor_bps
            ELSE
            LET cut == ((royalty - floor_bps) * decay_ratio) \div DECAY_DIVISOR
            IN  IF royalty < cut THEN ABORT         \* royalty - cut
                ELSE IF royalty - cut > floor_bps THEN royalty - cut
                     ELSE floor_bps

total_royalty_of(sale_price, royalty_bps) ==
    (sale_price * royalty_bps) \div BASIS_POINTS
muse_fee_of(sale_price) == (sale_price * MUSE_FEE_BPS) \div BASIS_POINTS
\* Faulty variant: a share rounded up instead of truncated.
share_amount_rounded_up(total_royalty, share_bps) ==
    (total_royalty * share_bps + BASIS_POINTS - 1) \div BASIS_POINTS

share_amount(total_royalty, share_bps) ==
    (total_royalty * share_bps) \div BASIS_POINTS

\* Faulty variant: a slot that has not accepted is paid nothing.
split_payments_accepted_only(asset_id, total_royalty) ==
    IF asset_id \in DOMAIN spl
    THEN [i \in 1..4 |->
             Pay(spl[asset_id][i].address,
                 IF spl[asset_id][i].accepted = 1
                 THEN share_amount(total_royalty, spl[asset_id][i].share_bps)
                 ELSE 0)]
    ELSE <<>>

\* The payments distribute_royalties submits, in order: the platform fee,
\* the four slots when the asset has a split box, then the remainder to the
\* creator when it is positive.
split_payments(asset_id, total_royalty) ==
    IF asset_id \in DOMAIN spl
    THEN [i \in 1..4 |-> Pay(spl[asset_id][i].address,
                             share_amount(total_royalty,
                                          spl[asset_id][i].share_bps))]
    ELSE <<>>

distribute_royalties(asset_id, sale_price, royalty_bps) ==
    LET total_royalty == total_royalty_of(sale_price, royalty_bps)
        muse_fee == muse_fee_of(sale_price)
        splits == split_payments(asset_id, total_royalty)
        paid_to_splits == SumAmt(splits)
    IN  <<Pay(muse_treasury, muse_fee)>> \o splits \o
        (IF total_royalty > paid_to_splits
         THEN <<Pay(nft[asset_id].creator, total_royalty - paid_to_splits)>>
         ELSE <<>>)

\* ------------------------------------------------------------------- state
\* Global state of the flat contract (src/muse_marketplace_v2.py) once its
\* create() has run: initialize_global_state() gives every key its default
\* (0, or the empty byte string), then the listed keys are set.  The text
\* keys (name, unit, metadata, hashes, role labels, memo) are never read by
\* any method and are left out.
EmptyBytes == ""

v2_create ==
    [creator_address |-> EmptyBytes, royalty_pct |-> 0, list_price |-> 0,
     is_listed |-> 0, mint_round |-> 0, decay_rounds |-> 0,
     royalty_floor |-> 0,
     cocreator_addr |-> <<EmptyBytes, EmptyBytes, EmptyBytes, EmptyBytes>>,
     cocreator_share |-> <<0, 0, 0, 0>>,
     cocreator_accepted |-> <<0, 0, 0, 0>>,
     royalty_buyout_price |-> 0, royalties_waived |-> 0,
     auction_end_round |-> 0, auction_min_bid |-> 0, highest_bid |-> 0,
     highest_bidder |-> EmptyBytes, prev_bidder |-> EmptyBytes,
     prev_bid_amt |-> 0,
     is_physical_asset |-> 0, is_redeemed |-> 0,
     custodian_address |-> EmptyBytes, authenticator_addr |-> EmptyBytes,
     is_authenticated |-> 0, pending_collab_count |-> 0,
     total_sales |-> 0, total_volume |-> 0, total_royalties |-> 0,
     transfer_count |-> 0]

Init ==
    /\ nft = <<>>
    /\ auc = <<>>
    /\ spl = <<>>
    /\ rwa = <<>>
    /\ muse_treasury = Treasury
    /\ total_volume = 0
    /\ total_royalties_paid = 0
    /\ nft_count = 0
    /\ live_auctions = 0
    /\ round = 1
    /\ steps = 0
    /\ last = [n |-> 0, op |-> "create", asset |-> 0, caller |-> ZeroAddress,
               amount |-> 0, pay |-> <<>>, xfer |-> "none", rbps |-> ABORT]
    /\ flat = v2_create

\* Every step, a call or a round advance, counts against the bound.  The
\* flat contract is another application: no call of this one touches it.
Step ==
    /\ steps < MaxSteps
    /\ steps' = steps + 1
    /\ UNCHANGED flat

\* The host creates a fresh asset for every AssetConfig inner transaction.
created_asset_id == Cardinality(DOMAIN nft) + 1

NewAssetRecord(asset_id, args, flags, creator) ==
    [asset_id |-> asset_id,
     price |-> args[1],
     royalty_bps |-> args[2],
     floor_bps |-> args[3],
     decay_start |-> IF args[4] = 0 THEN 0 ELSE round + args[4],
     buyout_price |-> args[5],
     transfers |-> 0,
     flags |-> flags,
     creator |-> creator]

\* --------------------------------------------------------------- minting
mint_nft_accepts(args) ==
    /\ args[2] <= MAX_ROYALTY_BPS
    /\ args[3] <= args[2]

\* ids bounds the ids the host hands out in the runs of a specification.
mint_nft_within(ids, caller, args) ==
    /\ Step
    /\ created_asset_id \in ids
    /\ mint_nft_accepts(args)
    /\ nft' = nft @@ (created_asset_id :>
                  NewAssetRecord(created_asset_id, args, 0, caller))
    /\ nft_count' = nft_count + 1
    /\ last' = Call("mint_nft", created_asset_id, caller, 0, <<>>, "none",
                    ABORT)
    /\ UNCHANGED <<auc, spl, rwa, muse_treasury, total_volume,
                   total_royalties_paid, live_auctions, round>>

mint_nft(caller, args) == mint_nft_within(AssetIds, caller, args)

\* Faulty variant: the royalty cap is not checked.
mint_rwa_accepts_any_royalty(args) == args[2] >= 0

mint_rwa_accepts(args) == args[2] <= MAX_ROYALTY_BPS

\* Faulty variant: the minted RWA is not counted.
mint_rwa_within_uncounted(ids, caller, args, custodian, authenticator) ==
    /\ Step
    /\ created_asset_id \in ids
    /\ mint_rwa_accepts(args)
    /\ nft' = nft @@ (created_asset_id :>
                  NewAssetRecord(created_asset_id, args, FLAG_IS_RWA, caller))
    /\ rwa' = rwa @@ (created_asset_id :>
                  [custodian |-> custodian,
                   authenticator |-> authenticator,
                   redemption_round |-> 0])
    /\ last' = Call("mint_rwa", created_asset_id, caller, 0, <<>>, "none",
                    ABORT)
    /\ UNCHANGED <<auc, spl, muse_treasury, total_volume, nft_count,
                   total_royalties_paid, live_auctions, round>>

mint_rwa_within(ids, caller, args, custodian, authenticator) ==
    /\ Step
    /\ created_asset_id \in ids
    /\ mint_rwa_accepts(args)
    /\ nft' = nft @@ (created_asset_id :>
                  NewAssetRecord(created_asset_id, args, FLAG_IS_RWA, caller))
    /\ rwa' = rwa @@ (created_asset_id :>
                  [custodian |-> custodian,
                   authenticator |-> authenticator,
                   redemption_round |-> 0])
    /\ nft_count' = nft_count + 1
    /\ last' = Call("mint_rwa", created_asset_id, caller, 0, <<>>, "none",
                    ABORT)
    /\ UNCHANGED <<auc, spl, muse_treasury, total_volume,
                   total_royalties_paid, live_auctions, round>>

mint_rwa(caller, args, custodian, authenticator) ==
    mint_rwa_within(AssetIds, caller, args, custodian, authenticator)

\* ------------------------------------------------------------ RWA lifecycle
\* Faulty variant: an asset already authenticated is validated again.
validate_physical_asset_accepts_again(caller, asset_id) ==
    /\ asset_id \in DOMAIN rwa
    /\ asset_id \in DOMAIN nft
    /\ rwa[asset_id].authenticator = caller

validate_physical_asset_accepts(caller, asset_id) ==
    /\ asset_id \in DOMAIN rwa
    /\ asset_id \in DOMAIN nft
    /\ rwa[asset_id].authenticator = caller
    /\ ~HasFlag(nft[asset_id].flags, FLAG_RWA_AUTH)

\* Faulty variant: the flag is set on every stored RWA, not only on the
\* asset named in the call.
validate_physical_asset_every_rwa(caller, asset_id) ==
    /\ Step
    /\ validate_physical_asset_accepts(caller, asset_id)
    /\ nft' = [x \in DOMAIN nft |->
                  IF x \in DOMAIN rwa
                  THEN [nft[x] EXCEPT !.flags =
                           BitwiseOrFlag(nft[x].flags, FLAG_RWA_AUTH)]
                  ELSE nft[x]]
    /\ last' = Call("validate_physical_asset", asset_id, caller, 0, <<>>,
                    "unfreeze", ABORT)
    /\ UNCHANGED <<auc, spl, rwa, globals, round>>

validate_physical_asset(caller, asset_id) ==
    /\ Step
    /\ validate_physical_asset_accepts(caller, asset_id)
    /\ nft' = [nft EXCEPT ![asset_id].flags =
                  BitwiseOrFlag(nft[asset_id].flags, FLAG_RWA_AUTH)]
    /\ last' = Call("validate_physical_asset", asset_id, caller, 0, <<>>,
                    "unfreeze", ABORT)
    /\ UNCHANGED <<auc, spl, rwa, globals, round>>

\* Faulty variant: the caller is not compared with the stored custodian.
redeem_physical_asset_accepts_any_caller(caller, asset_id) ==
    /\ asset_id \in DOMAIN rwa
    /\ asset_id \in DOMAIN nft
    /\ ~HasFlag(nft[asset_id].flags, FLAG_RWA_REDEEMED)
    /\ HasFlag(nft[asset_id].flags, FLAG_RWA_AUTH)

\* Faulty variant: an asset that was never authenticated can be redeemed.
redeem_physical_asset_accepts_unauthenticated(caller, asset_id) ==
    /\ asset_id \in DOMAIN rwa
    /\ asset_id \in DOMAIN nft
    /\ rwa[asset_id].custodian = caller
    /\ ~HasFlag(nft[asset_id].flags, FLAG_RWA_REDEEMED)

redeem_physical_asset_accepts(caller, asset_id) ==
    /\ asset_id \in DOMAIN rwa
    /\ asset_id \in DOMAIN nft
    /\ rwa[asset_id].custodian = caller
    /\ ~HasFlag(nft[asset_id].flags, FLAG_RWA_REDEEMED)
    /\ HasFlag(nft[asset_id].flags, FLAG_RWA_AUTH)

redeem_physical_asset(caller, asset_id) ==
    /\ Step
    /\ redeem_physical_asset_accepts(caller, asset_id)
    /\ rwa' = [rwa EXCEPT ![asset_id].redemption_round = round]
    /\ nft' = [nft EXCEPT ![asset_id].flags =
                  BitwiseAndNotFlag(
                      BitwiseOrFlag(nft[asset_id].flags, FLAG_RWA_REDEEMED),
                      FLAG_IN_AUCTION)]
    /\ last' = Call("redeem_physical_asset", asset_id, caller, 0, <<>>,
                    "none", ABORT)
    /\ UNCHANGED <<auc, spl, globals, round>>

\* ------------------------------------------------------ co-creator registry
NewSplit(addrs, shares) ==
    [i \in 1..4 |-> [address |-> addrs[i], share_bps |-> shares[i],
                     accepted |-> 0]]

\* Faulty variant: the caller is not compared with the creator.
register_co_creators_accepts_any_caller(caller, asset_id, shares) ==
    /\ asset_id \in DOMAIN nft
    /\ shares[1] + shares[2] + shares[3] + shares[4] <= BASIS_POINTS

\* Faulty variant: the sum of the shares is not checked.
register_co_creators_accepts_any_split(caller, asset_id, shares) ==
    /\ asset_id \in DOMAIN nft
    /\ nft[asset_id].creator = caller

register_co_creators_accepts(caller, asset_id, shares) ==
    /\ asset_id \in DOMAIN nft
    /\ nft[asset_id].creator = caller
    /\ shares[1] + shares[2] + shares[3] + shares[4] <= BASIS_POINTS

\* BoxCreate on an existing box of the same size changes nothing and the
\* BoxReplace that follows overwrites all four slots.
register_co_creators(caller, asset_id, addrs, shares) ==
    /\ Step
    /\ register_co_creators_accepts(caller, asset_id, shares)
    /\ spl' = (asset_id :> NewSplit(addrs, shares)) @@ spl
    /\ nft' = [nft EXCEPT ![asset_id].flags =
                  BitwiseOrFlag(nft[asset_id].flags, FLAG_COLLAB_PENDING)]
    /\ last' = Call("register_co_creators", asset_id, caller, 0, <<>>,
                    "none", ABORT)
    /\ UNCHANGED <<auc, rwa, globals, round>>

\* Faulty variant: a caller that no slot names is accepted.
accept_collaboration_accepts_without_match(caller, asset_id) ==
    asset_id \in DOMAIN spl

accept_collaboration_accepts(caller, asset_id) ==
    /\ asset_id \in DOMAIN spl
    /\ \E i \in 1..4 : spl[asset_id][i].address = caller

\* The For loop visits all four slots and has no early exit.
accept_collaboration(caller, asset_id) ==
    /\ Step
    /\ accept_collaboration_accepts(caller, asset_id)
    /\ spl' = [spl EXCEPT ![asset_id] =
                  [i \in 1..4 |->
                      IF spl[asset_id][i].address = caller
                      THEN [spl[asset_id][i] EXCEPT !.accepted = 1]
                      ELSE spl[asset_id][i]]]
    /\ last' = Call("accept_collaboration", asset_id, caller, 0, <<>>,
                    "none", ABORT)
    /\ UNCHANGED <<nft, auc, rwa, globals, round>>

\* ------------------------------------------------------------ fixed-price sale
\* price - royalty - fee, or ABORT when a subtraction goes below zero
net_to_seller_of(sale_price, royalty_bps) ==
    LET royalty_part == total_royalty_of(sale_price, royalty_bps)
        fee_part == muse_fee_of(sale_price)
    IN  IF sale_price < royalty_part + fee_part THEN ABORT
        ELSE sale_price - royalty_part - fee_part

\* The payments of a sale: the distribution when the royalty is positive,
\* then the net amount to `seller_addr`.
sale_payments(asset_id, sale_price, royalty_bps, seller_addr) ==
    (IF royalty_bps > 0
     THEN distribute_royalties(asset_id, sale_price, royalty_bps)
     ELSE <<>>)
    \o <<Pay(seller_addr, net_to_seller_of(sale_price, royalty_bps))>>

sale_royalties_paid(sale_price, royalty_bps) ==
    IF royalty_bps > 0
    THEN total_royalties_paid + total_royalty_of(sale_price, royalty_bps)
    ELSE total_royalties_paid

\* Faulty variant: the auction flag is not checked and an overpayment is
\* accepted.
buy_nft_accepts_lax(caller, asset_id, amount, receiver) ==
    /\ asset_id \in DOMAIN nft
    /\ nft[asset_id].price > 0
    /\ ~HasFlag(nft[asset_id].flags, FLAG_RWA_REDEEMED)
    /\ HasFlag(nft[asset_id].flags, FLAG_IS_RWA)
           => HasFlag(nft[asset_id].flags, FLAG_RWA_AUTH)
    /\ receiver = AppAddress
    /\ amount >= nft[asset_id].price
    /\ current_royalty_bps(nft, asset_id, round) # ABORT
    /\ net_to_seller_of(nft[asset_id].price,
                        current_royalty_bps(nft, asset_id, round)) # ABORT

buy_nft_accepts(caller, asset_id, amount, receiver) ==
    /\ asset_id \in DOMAIN nft
    /\ nft[asset_id].price > 0
    /\ ~HasFlag(nft[asset_id].flags, FLAG_IN_AUCTION)
    /\ ~HasFlag(nft[asset_id].flags, FLAG_RWA_REDEEMED)
    /\ HasFlag(nft[asset_id].flags, FLAG_IS_RWA)
           => HasFlag(nft[asset_id].flags, FLAG_RWA_AUTH)
    /\ receiver = AppAddress
    /\ amount = nft[asset_id].price
    /\ current_royalty_bps(nft, asset_id, round) # ABORT
    /\ net_to_seller_of(nft[asset_id].price,
                        current_royalty_bps(nft, asset_id, round)) # ABORT

buy_nft(caller, asset_id, amount, receiver) ==
    /\ Step
    /\ buy_nft_accepts(caller, asset_id, amount, receiver)
    /\ LET price == nft[asset_id].price
           royalty_bps == current_royalty_bps(nft, asset_id, round)
       IN  /\ total_royalties_paid' = sale_royalties_paid(price, royalty_bps)
           /\ nft' = [nft EXCEPT ![asset_id].transfers =
                         nft[asset_id].transfers + 1]
           /\ total_volume' = total_volume + price
           /\ last' = Call("buy_nft", asset_id, caller, amount,
                           sale_payments(asset_id, price, royalty_bps,
                                         nft[asset_id].creator),
                           caller, royalty_bps)
    /\ UNCHANGED <<auc, spl, rwa, muse_treasury, nft_count, live_auctions,
                   round>>

\* ------------------------------------------------------------ royalty buy-out
\* Faulty variant: an overpayment is accepted.
buy_out_royalty_accepts_overpaid(caller, asset_id, amount, receiver) ==
    /\ asset_id \in DOMAIN nft
    /\ nft[asset_id].buyout_price > 0
    /\ ~HasFlag(nft[asset_id].flags, FLAG_ROYALTY_WAIVED)
    /\ amount >= nft[asset_id].buyout_price
    /\ receiver = AppAddress

buy_out_royalty_accepts(caller, asset_id, amount, receiver) ==
    /\ asset_id \in DOMAIN nft
    /\ nft[asset_id].buyout_price > 0
    /\ ~HasFlag(nft[asset_id].flags, FLAG_ROYALTY_WAIVED)
    /\ amount = nft[asset_id].buyout_price
    /\ receiver = AppAddress

creator_cut_of(buyout_price) ==
    (buyout_price * BUYOUT_CREATOR_BPS) \div BASIS_POINTS

buy_out_royalty(caller, asset_id, amount, receiver) ==
    /\ Step
    /\ buy_out_royalty_accepts(caller, asset_id, amount, receiver)
    /\ LET buyout_price == nft[asset_id].buyout_price
           creator_cut == creator_cut_of(buyout_price)
           muse_cut == buyout_price - creator_cut
       IN  /\ nft' = [nft EXCEPT
                         ![asset_id].flags =
                             BitwiseOrFlag(nft[asset_id].flags,
                                           FLAG_ROYALTY_WAIVED),
                         ![asset_id].buyout_price = 0]
           /\ last' = Call("buy_out_royalty", asset_id, caller, amount,
                           <<Pay(nft[asset_id].creator, creator_cut),
                             Pay(muse_treasury, muse_cut)>>,
                           "none", ABORT)
    /\ UNCHANGED <<auc, spl, rwa, globals, round>>

\* ------------------------------------------------------------------ auction
\* Faulty variant: a duration of zero rounds is accepted.
start_auction_accepts_zero_duration(caller, asset_id, duration_rounds) ==
    /\ asset_id \in DOMAIN nft
    /\ ~HasFlag(nft[asset_id].flags, FLAG_IN_AUCTION)
    /\ ~HasFlag(nft[asset_id].flags, FLAG_RWA_REDEEMED)

start_auction_accepts(caller, asset_id, duration_rounds) ==
    /\ asset_id \in DOMAIN nft
    /\ ~HasFlag(nft[asset_id].flags, FLAG_IN_AUCTION)
    /\ ~HasFlag(nft[asset_id].flags, FLAG_RWA_REDEEMED)
    /\ duration_rounds > 0

\* The 88-byte box holds asset_id, end_round, highest_bid, highest_bidder
\* and seller; the second BoxReplace then writes reserve_price over the
\* first eight bytes, the asset_id field.
NewAuctionRecord(caller, asset_id, duration_rounds, reserve_price) ==
    [asset_id |-> reserve_price,
     end_round |-> round + duration_rounds,
     highest_bid |-> 0,
     highest_bidder |-> ZeroAddress,
     seller |-> caller]

\* Faulty variant: the auction is opened without being counted.
start_auction_uncounted(caller, asset_id, duration_rounds, reserve_price) ==
    /\ Step
    /\ start_auction_accepts(caller, asset_id, duration_rounds)
    /\ auc' = (asset_id :> NewAuctionRecord(caller, asset_id,
                                            duration_rounds, reserve_price))
              @@ auc
    /\ nft' = [nft EXCEPT ![asset_id].flags =
                  BitwiseOrFlag(nft[asset_id].flags, FLAG_IN_AUCTION)]
    /\ last' = Call("start_auction", asset_id, caller, 0, <<>>, AppAddress,
                    ABORT)
    /\ UNCHANGED <<spl, rwa, globals, round>>

start_auction(caller, asset_id, duration_rounds, reserve_price) ==
    /\ Step
    /\ start_auction_accepts(caller, asset_id, duration_rounds)
    /\ auc' = (asset_id :> NewAuctionRecord(caller, asset_id,
                                            duration_rounds, reserve_price))
              @@ auc
    /\ nft' = [nft EXCEPT ![asset_id].flags =
                  BitwiseOrFlag(nft[asset_id].flags, FLAG_IN_AUCTION)]
    /\ live_auctions' = live_auctions + 1
    /\ last' = Call("start_auction", asset_id, caller, 0, <<>>, AppAddress,
                    ABORT)
    /\ UNCHANGED <<spl, rwa, muse_treasury, total_volume,
                   total_royalties_paid, nft_count, round>>

\* Faulty variant: the end of the auction is not checked.
place_bid_accepts_after_end(caller, asset_id, amount, receiver) ==
    /\ asset_id \in DOMAIN auc
    /\ amount > auc[asset_id].highest_bid
    /\ receiver = AppAddress

\* Faulty variant: a bid that does not exceed the highest bid is accepted.
place_bid_accepts_any_amount(caller, asset_id, amount, receiver) ==
    /\ asset_id \in DOMAIN auc
    /\ round < auc[asset_id].end_round
    /\ receiver = AppAddress

place_bid_accepts(caller, asset_id, amount, receiver) ==
    /\ asset_id \in DOMAIN auc
    /\ round < auc[asset_id].end_round
    /\ amount > auc[asset_id].highest_bid
    /\ receiver = AppAddress

\* Faulty variant: the displaced bidder is not refunded.
place_bid_without_refund(caller, asset_id, amount, receiver) ==
    /\ Step
    /\ place_bid_accepts(caller, asset_id, amount, receiver)
    /\ LET end_round == auc[asset_id].end_round
       IN  /\ auc' = [auc EXCEPT
                         ![asset_id].highest_bid = amount,
                         ![asset_id].highest_bidder = caller,
                         ![asset_id].end_round =
                             IF end_round - round < ANTI_SNIPE_ROUNDS
                             THEN end_round + ANTI_SNIPE_ROUNDS
                             ELSE end_round]
           /\ last' = Call("place_bid", asset_id, caller, amount, <<>>,
                           "none", ABORT)
    /\ UNCHANGED <<nft, spl, rwa, globals, round>>

\* Faulty variant: a late bid moves end_round to 75 rounds from now, and a
\* bid with exactly 75 rounds left counts as late.
place_bid_extending_from_now(caller, asset_id, amount, receiver) ==
    /\ Step
    /\ place_bid_accepts(caller, asset_id, amount, receiver)
    /\ LET end_round == auc[asset_id].end_round
           highest_bid == auc[asset_id].highest_bid
           highest_bidder == auc[asset_id].highest_bidder
       IN  /\ auc' = [auc EXCEPT
                         ![asset_id].highest_bid = amount,
                         ![asset_id].highest_bidder = caller,
                         ![asset_id].end_round =
                             IF end_round - round <= ANTI_SNIPE_ROUNDS
                             THEN round + ANTI_SNIPE_ROUNDS
                             ELSE end_round]
           /\ last' = Call("place_bid", asset_id, caller, amount,
                           IF highest_bidder # ZeroAddress
                           THEN <<Pay(highest_bidder, highest_bid)>>
                           ELSE <<>>,
                           "none", ABORT)
    /\ UNCHANGED <<nft, spl, rwa, globals, round>>

place_bid(caller, asset_id, amount, receiver) ==
    /\ Step
    /\ place_bid_accepts(caller, asset_id, amount, receiver)
    /\ LET end_round == auc[asset_id].end_round
           highest_bid == auc[asset_id].highest_bid
           highest_bidder == auc[asset_id].highest_bidder
       IN  /\ auc' = [auc EXCEPT
                         ![asset_id].highest_bid = amount,
                         ![asset_id].highest_bidder = caller,
                         ![asset_id].end_round =
                             IF end_round - round < ANTI_SNIPE_ROUNDS
                             THEN end_round + ANTI_SNIPE_ROUNDS
                             ELSE end_round]
           /\ last' = Call("place_bid", asset_id, caller, amount,
                           IF highest_bidder # ZeroAddress
                           THEN <<Pay(highest_bidder, highest_bid)>>
                           ELSE <<>>,
                           "none", ABORT)
    /\ UNCHANGED <<nft, spl, rwa, globals, round>>

settle_auction_accepts(caller, asset_id) ==
    /\ asset_id \in DOMAIN auc
    /\ asset_id \in DOMAIN nft
    /\ round >= auc[asset_id].end_round
    /\ auc[asset_id].highest_bidder # ZeroAddress =>
          /\ current_royalty_bps(nft, asset_id, round) # ABORT
          /\ net_to_seller_of(auc[asset_id].highest_bid,
                              current_royalty_bps(nft, asset_id, round))
                 # ABORT
    /\ live_auctions >= 1

\* Faulty variant: an auction without bids is settled like a sale, counting
\* a transfer of the asset.
settle_auction_counting_unsold(caller, asset_id) ==
    /\ Step
    /\ settle_auction_accepts(caller, asset_id)
    /\ LET highest_bid == auc[asset_id].highest_bid
           highest_bidder == auc[asset_id].highest_bidder
           seller == auc[asset_id].seller
           royalty_bps == current_royalty_bps(nft, asset_id, round)
           cleared == BitwiseAndNotFlag(nft[asset_id].flags, FLAG_IN_AUCTION)
       IN  /\ nft' = [nft EXCEPT
                         ![asset_id].transfers = nft[asset_id].transfers + 1,
                         ![asset_id].flags = cleared]
           /\ total_volume' = total_volume + highest_bid
           /\ IF highest_bidder = ZeroAddress
              THEN /\ last' = Call("settle_auction", asset_id, caller, 0,
                                   <<>>, seller, ABORT)
                   /\ UNCHANGED total_royalties_paid
              ELSE /\ total_royalties_paid' =
                          sale_royalties_paid(highest_bid, royalty_bps)
                   /\ last' = Call("settle_auction", asset_id, caller,
                                   highest_bid,
                                   sale_payments(asset_id, highest_bid,
                                                 royalty_bps, seller),
                                   highest_bidder, royalty_bps)
    /\ auc' = [x \in DOMAIN auc \ {asset_id} |-> auc[x]]
    /\ live_auctions' = live_auctions - 1
    /\ UNCHANGED <<spl, rwa, muse_treasury, nft_count, round>>

settle_auction(caller, asset_id) ==
    /\ Step
    /\ settle_auction_accepts(caller, asset_id)
    /\ LET highest_bid == auc[asset_id].highest_bid
           highest_bidder == auc[asset_id].highest_bidder
           seller == auc[asset_id].seller
           royalty_bps == current_royalty_bps(nft, asset_id, round)
           cleared == BitwiseAndNotFlag(nft[asset_id].flags, FLAG_IN_AUCTION)
       IN  IF highest_bidder = ZeroAddress
           THEN /\ nft' = [nft EXCEPT ![asset_id].flags = cleared]
                /\ last' = Call("settle_auction", asset_id, caller, 0, <<>>,
                                seller, ABORT)
                /\ UNCHANGED <<total_volume, total_royalties_paid>>
           ELSE /\ total_royalties_paid' =
                       sale_royalties_paid(highest_bid, royalty_bps)
                /\ nft' = [nft EXCEPT
                              ![asset_id].transfers =
                                  nft[asset_id].transfers + 1,
                              ![asset_id].flags = cleared]
                /\ total_volume' = total_volume + highest_bid
                /\ last' = Call("settle_auction", asset_id, caller,
                                highest_bid,
                                sale_payments(asset_id, highest_bid,
                                              royalty_bps, seller),
                                highest_bidder, royalty_bps)
    /\ auc' = [x \in DOMAIN auc \ {asset_id} |-> auc[x]]
    /\ live_auctions' = live_auctions - 1
    /\ UNCHANGED <<spl, rwa, muse_treasury, nft_count, round>>

\* -------------------------------------------------------------------- views
get_current_royalty(asset_id) ==
    /\ Step
    /\ current_royalty_bps(nft, asset_id, round) # ABORT
    /\ last' = Call("get_current_royalty", asset_id, ZeroAddress, 0, <<>>,
                    "none", current_royalty_bps(nft, asset_id, round))
    /\ UNCHANGED <<boxes, globals, round>>

\* The host advances the round between calls.
Tick(d) ==
    /\ Step
    /\ round' = round + d
    /\ UNCHANGED <<boxes, globals, last>>

Next ==
    \/ \E c \in Creators, args \in MintArgs : mint_nft(c, args)
    \/ \E c \in Creators, args \in MintArgs, r \in RwaRoles :
           mint_rwa(c, args, r[1], r[2])
    \/ \E c \in Accounts, a \in CallIds : validate_physical_asset(c, a)
    \/ \E c \in Accounts, a \in CallIds : redeem_physical_asset(c, a)
    \/ \E c \in Accounts, a \in CallIds, sh \in ShareArgs :
           register_co_creators(c, a, SlotAddrs, sh)
    \/ \E c \in Accounts, a \in CallIds : accept_collaboration(c, a)
    \/ \E c \in Accounts, a \in CallIds, m \in Amounts, rc \in Receivers :
           buy_nft(c, a, m, rc)
    \/ \E c \in Accounts, a \in CallIds, m \in Amounts, rc \in Receivers :
           buy_out_royalty(c, a, m, rc)
    \/ \E c \in Accounts, a \in CallIds, d \in Durations, rp \in Reserves :
           start_auction(c, a, d, rp)
    \/ \E c \in Accounts, a \in CallIds, m \in BidAmounts, rc \in Receivers :
           place_bid(c, a, m, rc)
    \/ \E c \in Accounts, a \in CallIds : settle_auction(c, a)
    \/ \E a \in CallIds : get_current_royalty(a)
    \/ \E d \in RoundSteps : Tick(d)

Spec == Init /\ [][Next]_vars

\* Royalty arithmetic on wider inputs: mints, split registrations and
\* fixed-price sales only, with prices, royalties and shares chosen so that
\* exact and truncating divisions both occur.
\* (price, royalty_bps, floor_bps, decay_after_rounds, buyout_price)
DistMintArgs ==
    { <<1000000, 1000, 500, 10, 0>>,
      <<999, 2000, 0, 0, 0>>,
      <<7, 1500, 1500, 0, 0>>,
      <<40, 1, 0, 0, 0>> }
DistShares ==
    { <<5000, 2500, 1500, 1000>>, <<3333, 3333, 3333, 0>>,
      <<10000, 0, 0, 0>>, <<0, 0, 0, 0>>, <<1, 1, 1, 9997>> }
DistAmounts == {7, 40, 999, 1000000}

NextDist ==
    \/ \E c \in Creators, args \in DistMintArgs : mint_nft(c, args)
    \/ \E c \in Accounts, a \in CallIds, sh \in DistShares :
           register_co_creators(c, a, SlotAddrs, sh)
    \/ \E c \in Accounts, a \in CallIds, m \in DistAmounts :
           buy_nft(c, a, m, AppAddress)
    \/ \E d \in RoundSteps : Tick(d)

SpecDist == Init /\ [][NextDist]_vars

\* The co-creator registry on more slot layouts: an address in several
\* slots, in one slot, and accounts that no slot names; with mints, sales
\* and round advances around the registry calls.
CollabSlotAddrs ==
    { <<"bob", "alice", "bob", ZeroAddress>>,
      <<"alice", ZeroAddress, ZeroAddress, ZeroAddress>>,
      <<ZeroAddress, "bob", "bob", "bob">> }
CollabMintArgs == { <<999, 1000, 500, 10, 101>>, <<100, 2000, 0, 0, 0>> }

NextCollab ==
    \/ \E c \in Creators, args \in CollabMintArgs : mint_nft(c, args)
    \/ \E c \in Accounts, a \in CallIds, ad \in CollabSlotAddrs,
          sh \in ShareArgs : register_co_creators(c, a, ad, sh)
    \/ \E c \in Accounts, a \in CallIds : accept_collaboration(c, a)
    \/ \E c \in Accounts, a \in CallIds, m \in Amounts :
           buy_nft(c, a, m, AppAddress)
    \/ \E d \in RoundSteps : Tick(d)

SpecCollab == Init /\ [][NextCollab]_vars

\* Two assets side by side: every operation, on inputs kept small, so that
\* calls on one asset happen while the other has records of every kind.
PairAssetIds == {1, 2}
PairMintArgs == { <<999, 1000, 500, 10, 101>> }
PairAmounts == {101, 999}
PairBids == {100}
PairDurations == {100}
PairRoundSteps == {100}
\* the account that buys, bids, and opens and settles auctions
PairBuyers == {"bob"}

NextPair ==
    \/ \E c \in Creators, args \in PairMintArgs :
           mint_nft_within(PairAssetIds, c, args)
    \/ \E c \in Creators, args \in PairMintArgs, r \in RwaRoles :
           mint_rwa_within(PairAssetIds, c, args, r[1], r[2])
    \/ \E c \in Accounts, a \in PairAssetIds : validate_physical_asset(c, a)
    \/ \E c \in Accounts, a \in PairAssetIds : redeem_physical_asset(c, a)
    \/ \E c \in Accounts, a \in PairAssetIds, sh \in ShareArgs :
           register_co_creators(c, a, SlotAddrs, sh)
    \/ \E c \in Accounts, a \in PairAssetIds : accept_collaboration(c, a)
    \/ \E c \in PairBuyers, a \in PairAssetIds, m \in PairAmounts :
           buy_nft(c, a, m, AppAddress)
    \/ \E c \in PairBuyers, a \in PairAssetIds, m \in PairAmounts :
           buy_out_royalty(c, a, m, AppAddress)
    \/ \E c \in PairBuyers, a \in PairAssetIds, d \in PairDurations,
          rp \in Reserves : start_auction(c, a, d, rp)
    \/ \E c \in PairBuyers, a \in PairAssetIds, m \in PairBids :
           place_bid(c, a, m, AppAddress)
    \/ \E c \in PairBuyers, a \in PairAssetIds : settle_auction(c, a)
    \/ \E a \in PairAssetIds : get_current_royalty(a)
    \/ \E d \in PairRoundSteps : Tick(d)

SpecPair == Init /\ [][NextPair]_vars

\* accept_collaboration instruction by instruction, to see the order of its
\* guards and writes within one call.  `last` is the frame of the call in
\* progress: pc is the position in the method, i and found are its two
\* scratch variables, writes counts the BoxReplace executed so far.  The
\* host runs one call at a time, so no other call starts while pc is inside
\* the method; the call counts as one step.
Idle == "pc" \in DOMAIN last => last.pc \in {"done", "rejected"}

\* Assert(spl_box.hasValue()) and found.store(0)
accept_collaboration_enter(caller, asset_id) ==
    /\ Idle
    /\ Step
    /\ last' = [n |-> steps + 1, op |-> "accept_collaboration",
                asset |-> asset_id, caller |-> caller, amount |-> 0,
                pay |-> <<>>, xfer |-> "none", rbps |-> ABORT,
                pc |-> IF asset_id \in DOMAIN spl THEN "loop" ELSE "rejected",
                i |-> 0, found |-> 0, writes |-> 0]
    /\ UNCHANGED <<boxes, globals, round>>

\* One pass of the For body: slot i (bytes 40 i .. 40 i + 40) is compared
\* with the sender and, on a match, its accepted word is written at once.
accept_collaboration_iterate ==
    /\ "pc" \in DOMAIN last
    /\ last.pc = "loop"
    /\ LET a == last.asset
           slot == last.i + 1
           match == spl[a][slot].address = last.caller
       IN  /\ spl' = IF match
                     THEN [spl EXCEPT ![a][slot].accepted = 1]
                     ELSE spl
           /\ last' = [last EXCEPT
                          !.i = last.i + 1,
                          !.found = IF match THEN 1 ELSE last.found,
                          !.writes = IF match THEN last.writes + 1
                                     ELSE last.writes,
                          !.pc = IF last.i + 1 < 4 THEN "loop"
                                 ELSE "assert_found"]
    /\ UNCHANGED <<nft, auc, rwa, globals, round, steps, flat>>

\* Assert(found.load()), the last instruction of the method
accept_collaboration_assert_found ==
    /\ "pc" \in DOMAIN last
    /\ last.pc = "assert_found"
    /\ last' = [last EXCEPT !.pc = IF last.found = 1 THEN "done"
                                   ELSE "rejected"]
    /\ UNCHANGED <<boxes, globals, round, steps, flat>>

NextAcceptSteps ==
    \/ Idle /\ \E c \in Creators, args \in CollabMintArgs : mint_nft(c, args)
    \/ Idle /\ \E c \in Accounts, a \in CallIds, ad \in CollabSlotAddrs,
                  sh \in ShareArgs : register_co_creators(c, a, ad, sh)
    \/ \E c \in Accounts, a \in CallIds : accept_collaboration_enter(c, a)
    \/ accept_collaboration_iterate
    \/ accept_collaboration_assert_found
    \/ Idle /\ \E d \in RoundSteps : Tick(d)

SpecAcceptSteps == Init /\ [][NextAcceptSteps]_vars

\* ===================================================================
\* The flat variant (src/muse_marketplace_v2.py): one NFT, its whole state
\* in the application's global keys (variable flat).
\* ===================================================================
MARKETPLACE_FEE_BPS == 250
MAX_SHARE_TOTAL == 10000

\* Inputs of the flat contract.  An abi.Address argument is always 32
\* bytes, the zero address included: it never equals the empty byte string.
\* (royalty_bps, list_price_algo, decay_after_rounds, floor_royalty_bps,
\*  buyout_price)
V2MintArgs == { <<1000, 100, 10, 500, 50>>, <<2000, 100, 0, 2000, 0>> }
\* (royalty_bps, list_price_algo, buyout_price)
V2RwaArgs == { <<1000, 100, 50>> }
V2RwaRoles == { <<"alice", "bob">> }          \* (custodian, authenticator)
V2CoAddrs == { <<"bob", ZeroAddress, ZeroAddress, ZeroAddress>> }
V2CoShares == { <<5000, 0, 0, 0>> }
V2Slots == {1, 2, 3, 4}
V2Creators == {"alice"}
V2Bids == {100, 150, 200}
V2Amounts == {100}
V2Durations == {100}
V2MinBids == {100}
V2Royalties == {500}
V2Prices == {100}
V2RoundSteps == {100}

v2_Step ==
    /\ steps < MaxSteps
    /\ steps' = steps + 1
    /\ UNCHANGED <<boxes, globals>>

\* The effective royalty: 0 once waived, the floor once decay_rounds have
\* passed since the mint, the set royalty otherwise.
effective_royalty_bps(now) ==
    IF flat.royalties_waived = 1 THEN 0
    ELSE IF /\ flat.decay_rounds > 0
            /\ now - flat.mint_round >= flat.decay_rounds
         THEN flat.royalty_floor
         ELSE flat.royalty_pct

v2_royalty_pool(price, now) == (price * effective_royalty_bps(now)) \div 10000
v2_market_amt(price) == (price * MARKETPLACE_FEE_BPS) \div 10000
v2_co_amt(royalty_pool, i) ==
    (royalty_pool * flat.cocreator_share[i]) \div 10000
v2_primary_royalty(royalty_pool) ==
    royalty_pool - v2_co_amt(royalty_pool, 1) - v2_co_amt(royalty_pool, 2)
                 - v2_co_amt(royalty_pool, 3) - v2_co_amt(royalty_pool, 4)

\* The co-creator payments, one for every slot whose address is not the
\* empty byte string, in slot order.
RECURSIVE v2_co_payments_from(_, _)
v2_co_payments_from(royalty_pool, i) ==
    IF i > 4 THEN <<>>
    ELSE (IF flat.cocreator_addr[i] # EmptyBytes
          THEN <<Pay(flat.cocreator_addr[i], v2_co_amt(royalty_pool, i))>>
          ELSE <<>>) \o v2_co_payments_from(royalty_pool, i + 1)

v2_co_payments(royalty_pool) == v2_co_payments_from(royalty_pool, 1)

v2_mint_nft_accepts(args) ==
    /\ args[1] <= MAX_ROYALTY_BPS
    /\ args[2] > 0
    /\ args[4] <= args[1]

v2_mint_nft(caller, args) ==
    /\ v2_Step
    /\ v2_mint_nft_accepts(args)
    /\ flat' = [flat EXCEPT
           !.creator_address = caller,
           !.royalty_pct = args[1],
           !.list_price = args[2],
           !.mint_round = round,
           !.decay_rounds = args[3],
           !.royalty_floor = args[4],
           !.royalty_buyout_price = args[5],
           !.royalties_waived = 0,
           !.is_listed = 1,
           !.is_physical_asset = 0,
           !.is_authenticated = 0,
           !.is_redeemed = 0,
           !.cocreator_addr = <<EmptyBytes, EmptyBytes, EmptyBytes, EmptyBytes>>,
           !.cocreator_share = <<0, 0, 0, 0>>,
           !.cocreator_accepted = <<0, 0, 0, 0>>,
           !.pending_collab_count = 0,
           !.auction_end_round = 0,
           !.highest_bid = 0]
    /\ last' = Call("mint_nft", 0, caller, 0, <<>>, "none", ABORT)
    /\ UNCHANGED round

v2_pending_of(addrs) ==
    (IF addrs[1] # EmptyBytes THEN 1 ELSE 0) +
    (IF addrs[2] # EmptyBytes THEN 1 ELSE 0) +
    (IF addrs[3] # EmptyBytes THEN 1 ELSE 0) +
    (IF addrs[4] # EmptyBytes THEN 1 ELSE 0)

v2_mint_nft_rwa_accepts(args, shares) ==
    /\ args[1] <= MAX_ROYALTY_BPS
    /\ args[2] > 0
    /\ shares[1] + shares[2] + shares[3] + shares[4] <= MAX_SHARE_TOTAL

v2_mint_nft_rwa(caller, args, custodian, authenticator, addrs, shares) ==
    /\ v2_Step
    /\ v2_mint_nft_rwa_accepts(args, shares)
    /\ flat' = [flat EXCEPT
           !.creator_address = caller,
           !.royalty_pct = args[1],
           !.list_price = args[2],
           !.is_physical_asset = 1,
           !.is_authenticated = 0,
           !.is_redeemed = 0,
           !.custodian_address = custodian,
           !.authenticator_addr = authenticator,
           !.royalty_buyout_price = args[3],
           !.royalties_waived = 0,
           !.mint_round = round,
           !.decay_rounds = 0,
           !.royalty_floor = 0,
           !.is_listed = 0,
           !.cocreator_addr = addrs,
           !.cocreator_share = shares,
           !.cocreator_accepted = <<0, 0, 0, 0>>,
           !.pending_collab_count = v2_pending_of(addrs),
           !.auction_end_round = 0,
           !.highest_bid = 0,
           !.transfer_count = 0]
    /\ last' = Call("mint_nft_rwa", 0, caller, 0, <<>>, "none", ABORT)
    /\ UNCHANGED round

v2_validate_physical_asset_accepts(caller) ==
    /\ flat.is_physical_asset = 1
    /\ caller = flat.authenticator_addr
    /\ flat.is_authenticated = 0

v2_validate_physical_asset(caller) ==
    /\ v2_Step
    /\ v2_validate_physical_asset_accepts(caller)
    /\ flat' = [flat EXCEPT !.is_authenticated = 1, !.is_listed = 1]
    /\ last' = Call("validate_physical_asset", 0, caller, 0, <<>>, "none",
                    ABORT)
    /\ UNCHANGED round

v2_slot_valid(caller, slot, i) ==
    /\ slot = i
    /\ caller = flat.cocreator_addr[i]
    /\ flat.cocreator_accepted[i] = 0

v2_accept_collaboration_accepts(caller, slot) ==
    /\ \E i \in 1..4 : v2_slot_valid(caller, slot, i)
    /\ flat.pending_collab_count >= 1

v2_accept_collaboration(caller, slot) ==
    /\ v2_Step
    /\ v2_accept_collaboration_accepts(caller, slot)
    /\ flat' = [flat EXCEPT
           !.cocreator_accepted =
               [i \in 1..4 |-> IF v2_slot_valid(caller, slot, i) THEN 1
                               ELSE flat.cocreator_accepted[i]],
           !.pending_collab_count = flat.pending_collab_count - 1]
    /\ last' = Call("accept_collaboration", 0, caller, slot, <<>>, "none",
                    ABORT)
    /\ UNCHANGED round

\* Faulty variant: the authentication of a physical asset is not checked.
v2_start_auction_accepts_unauth(caller, duration_rounds, min_bid_algo) ==
    /\ caller = flat.creator_address
    /\ duration_rounds > 0
    /\ min_bid_algo > 0
    /\ flat.auction_end_round = 0

v2_start_auction_accepts(caller, duration_rounds, min_bid_algo) ==
    /\ caller = flat.creator_address
    /\ duration_rounds > 0
    /\ min_bid_algo > 0
    /\ flat.auction_end_round = 0
    /\ flat.is_physical_asset = 1 => flat.is_authenticated = 1

v2_start_auction(caller, duration_rounds, min_bid_algo) ==
    /\ v2_Step
    /\ v2_start_auction_accepts(caller, duration_rounds, min_bid_algo)
    /\ flat' = [flat EXCEPT
           !.auction_end_round = round + duration_rounds,
           !.auction_min_bid = min_bid_algo,
           !.highest_bid = 0,
           !.highest_bidder = EmptyBytes,
           !.prev_bidder = EmptyBytes,
           !.prev_bid_amt = 0,
           !.is_listed = 1]
    /\ last' = Call("start_auction", 0, caller, min_bid_algo, <<>>, "none",
                    ABORT)
    /\ UNCHANGED round

v2_place_bid_accepts(caller, bid_amount, receiver) ==
    /\ flat.auction_end_round > 0
    /\ round < flat.auction_end_round
    /\ receiver = AppAddress
    /\ bid_amount >= flat.auction_min_bid
    /\ bid_amount > flat.highest_bid

\* The refund goes to prev_bidder, the bidder before the current highest
\* one (has_prev reads prev_bidder before the keys are shifted).
v2_place_bid(caller, bid_amount, receiver) ==
    /\ v2_Step
    /\ v2_place_bid_accepts(caller, bid_amount, receiver)
    /\ flat' = [flat EXCEPT
           !.prev_bidder = flat.highest_bidder,
           !.prev_bid_amt = flat.highest_bid,
           !.highest_bidder = caller,
           !.highest_bid = bid_amount]
    /\ last' = Call("place_bid", 0, caller, bid_amount,
                    IF flat.prev_bidder # EmptyBytes
                    THEN <<Pay(flat.prev_bidder, flat.prev_bid_amt)>>
                    ELSE <<>>,
                    "none", ABORT)
    /\ UNCHANGED round

v2_seller_net(price, now) ==
    price - v2_royalty_pool(price, now) - v2_market_amt(price)

v2_settle_auction_accepts(caller) ==
    /\ flat.auction_end_round > 0
    /\ round >= flat.auction_end_round
    /\ flat.highest_bidder # EmptyBytes =>
           /\ v2_primary_royalty(v2_royalty_pool(flat.highest_bid, round)) >= 0
           /\ v2_seller_net(flat.highest_bid, round) >= 0

v2_settle_auction(caller) ==
    /\ v2_Step
    /\ v2_settle_auction_accepts(caller)
    /\ LET price == flat.highest_bid
           royalty_pool == v2_royalty_pool(price, round)
           has_winner == flat.highest_bidder # EmptyBytes
           closed == [flat EXCEPT
                         !.auction_end_round = 0,
                         !.highest_bid = 0,
                         !.highest_bidder = EmptyBytes,
                         !.prev_bidder = EmptyBytes,
                         !.prev_bid_amt = 0,
                         !.is_listed = 0]
       IN  /\ flat' = IF has_winner
                      THEN [closed EXCEPT
                               !.total_sales = flat.total_sales + 1,
                               !.total_volume = flat.total_volume + price,
                               !.total_royalties =
                                   flat.total_royalties + royalty_pool,
                               !.transfer_count = flat.transfer_count + 1]
                      ELSE closed
           /\ last' = Call("settle_auction", 0, caller, price,
                           IF has_winner
                           THEN v2_co_payments(royalty_pool) \o
                                <<Pay(flat.creator_address,
                                      v2_primary_royalty(royalty_pool)),
                                  Pay(Treasury, v2_market_amt(price)),
                                  Pay(flat.creator_address,
                                      v2_seller_net(price, round))>>
                           ELSE <<>>,
                           "none",
                           IF has_winner THEN effective_royalty_bps(round)
                           ELSE ABORT)
    /\ UNCHANGED round

v2_buy_nft_accepts(caller, amount, receiver) ==
    /\ flat.is_listed = 1
    /\ flat.auction_end_round = 0
    /\ receiver = AppAddress
    /\ amount >= flat.list_price
    /\ flat.is_physical_asset = 1 =>
           /\ flat.is_authenticated = 1
           /\ flat.is_redeemed = 0
    /\ v2_primary_royalty(v2_royalty_pool(amount, round)) >= 0

v2_buy_nft(caller, amount, receiver) ==
    /\ v2_Step
    /\ v2_buy_nft_accepts(caller, amount, receiver)
    /\ LET royalty_pool == v2_royalty_pool(amount, round)
       IN  /\ flat' = [flat EXCEPT
                  !.is_listed = 0,
                  !.total_sales = flat.total_sales + 1,
                  !.total_volume = flat.total_volume + amount,
                  !.total_royalties = flat.total_royalties + royalty_pool,
                  !.transfer_count = flat.transfer_count + 1]
           /\ last' = Call("buy_nft", 0, caller, amount,
                           v2_co_payments(royalty_pool) \o
                           <<Pay(flat.creator_address,
                                 v2_primary_royalty(royalty_pool)),
                             Pay(Treasury, v2_market_amt(amount))>>,
                           "none", effective_royalty_bps(round))
    /\ UNCHANGED round

v2_buy_out_royalty_accepts(caller, paid, receiver) ==
    /\ flat.royalty_buyout_price > 0
    /\ flat.royalties_waived = 0
    /\ receiver = AppAddress
    /\ paid >= flat.royalty_buyout_price

v2_buy_out_royalty(caller, paid, receiver) ==
    /\ v2_Step
    /\ v2_buy_out_royalty_accepts(caller, paid, receiver)
    /\ LET market_cut == (paid * 500) \div 10000
       IN  last' = Call("buy_out_royalty", 0, caller, paid,
                        <<Pay(flat.creator_address, paid - market_cut),
                          Pay(Treasury, market_cut)>>,
                        "none", ABORT)
    /\ flat' = [flat EXCEPT !.royalties_waived = 1,
                            !.royalty_buyout_price = 0]
    /\ UNCHANGED round

v2_redeem_physical_asset_accepts(caller) ==
    /\ flat.is_physical_asset = 1
    /\ flat.is_authenticated = 1
    /\ flat.is_redeemed = 0
    /\ caller = flat.custodian_address

v2_redeem_physical_asset(caller) ==
    /\ v2_Step
    /\ v2_redeem_physical_asset_accepts(caller)
    /\ flat' = [flat EXCEPT !.is_redeemed = 1, !.is_listed = 0]
    /\ last' = Call("redeem_physical_asset", 0, caller, 0, <<>>, "none",
                    ABORT)
    /\ UNCHANGED round

v2_update_royalty_accepts(caller, new_royalty_bps) ==
    /\ caller = flat.creator_address
    /\ new_royalty_bps <= MAX_ROYALTY_BPS
    /\ flat.royalties_waived = 0

v2_update_royalty(caller, new_royalty_bps) ==
    /\ v2_Step
    /\ v2_update_royalty_accepts(caller, new_royalty_bps)
    /\ flat' = [flat EXCEPT !.royalty_pct = new_royalty_bps]
    /\ last' = Call("update_royalty", 0, caller, new_royalty_bps, <<>>,
                    "none", ABORT)
    /\ UNCHANGED round

v2_list_nft_accepts(caller, new_price) ==
    /\ new_price > 0
    /\ flat.is_redeemed = 0
    /\ flat.is_physical_asset = 1 => flat.is_authenticated = 1

v2_list_nft(caller, new_price) ==
    /\ v2_Step
    /\ v2_list_nft_accepts(caller, new_price)
    /\ flat' = [flat EXCEPT !.list_price = new_price, !.is_listed = 1]
    /\ last' = Call("list_nft", 0, caller, new_price, <<>>, "none", ABORT)
    /\ UNCHANGED round

\* The host advances the round between calls.
v2_Tick(d) ==
    /\ v2_Step
    /\ round' = round + d
    /\ UNCHANGED <<flat, last>>

NextFlat ==
    \/ \E c \in V2Creators, args \in V2MintArgs : v2_mint_nft(c, args)
    \/ \E c \in V2Creators, args \in V2RwaArgs, r \in V2RwaRoles,
          ad \in V2CoAddrs, sh \in V2CoShares :
           v2_mint_nft_rwa(c, args, r[1], r[2], ad, sh)
    \/ \E c \in Accounts : v2_validate_physical_asset(c)
    \/ \E c \in Accounts, s \in V2Slots : v2_accept_collaboration(c, s)
    \/ \E c \in Accounts, d \in V2Durations, mb \in V2MinBids :
           v2_start_auction(c, d, mb)
    \/ \E c \in Accounts, m \in V2Bids : v2_place_bid(c, m, AppAddress)
    \/ \E c \in Accounts : v2_settle_auction(c)
    \/ \E c \in Accounts, m \in V2Amounts : v2_buy_nft(c, m, AppAddress)
    \/ \E c \in Accounts, m \in V2Amounts : v2_buy_out_royalty(c, m, AppAddress)
    \/ \E c \in Accounts : v2_redeem_physical_asset(c)
    \/ \E c \in Accounts, r \in V2Royalties : v2_update_royalty(c, r)
    \/ \E c \in Accounts, p \in V2Prices : v2_list_nft(c, p)
    \/ \E d \in V2RoundSteps : v2_Tick(d)

SpecFlat == Init /\ [][NextFlat]_vars

\* ===================================================================
\* Properties
\* ===================================================================
\* This step is an accepted call of method op on asset a.
Called(op, a) ==
    /\ last'.n # last.n
    /\ last'.op = op
    /\ last'.asset = a

\* This step sells asset a: a fixed-price purchase or a settlement that has
\* a winning bidder.
Sold(a) ==
    \/ Called("buy_nft", a)
    \/ Called("settle_auction", a) /\ last'.rbps # ABORT

Max(x, y) == IF x > y THEN x ELSE y

\* C1: the payments emitted by every successful sale (platform fee, the four
\* share payments, the creator remainder and the seller net) add up to
\* exactly the sale price, for every effective royalty including 0.
C1_PaymentsSumToSalePrice ==
    last.op \in {"buy_nft", "settle_auction"} =>
        SumAmt(last.pay) = last.amount

\* C2: a distribution pays slot i floor(total_royalty * share_bps_i / 10000)
\* with total_royalty = floor(sale_price * royalty_bps / 10000), pays the
\* creator the remainder total_royalty - sum of shares (never negative), and
\* total_royalties_paid grows by exactly total_royalty.
C2_DistributionExact ==
    [][\A a \in DOMAIN nft :
          (Sold(a) /\ last'.rbps > 0) =>
              LET tr == (last'.amount * last'.rbps) \div 10000
                  k == IF a \in DOMAIN spl THEN 4 ELSE 0
                  due == [i \in 1..k |-> (tr * spl[a][i].share_bps) \div 10000]
                  paid == IF k = 0 THEN 0
                          ELSE due[1] + due[2] + due[3] + due[4]
                  rem == tr - paid
              IN  /\ \A i \in 1..k :
                        last'.pay[1 + i] =
                            [to |-> spl[a][i].address, amt |-> due[i]]
                  /\ rem >= 0
                  /\ rem > 0 => last'.pay[2 + k] =
                                    [to |-> nft[a].creator, amt |-> rem]
                  /\ Len(last'.pay) = (IF rem > 0 THEN 3 ELSE 2) + k
                  /\ total_royalties_paid' = total_royalties_paid + tr
      ]_vars

\* C2 witness: shares {5000,2500,1500,1000} on total_royalty 100000 were paid
\* {50000,25000,15000,10000} and no remainder payment was emitted.
C2_Witness ==
    /\ last.op = "buy_nft"
    /\ last.amount = 1000000
    /\ last.rbps = 1000
    /\ Len(last.pay) = 6
    /\ last.pay[2].amt = 50000
    /\ last.pay[3].amt = 25000
    /\ last.pay[4].amt = 15000
    /\ last.pay[5].amt = 10000
    /\ total_royalties_paid = 100000

\* The effective royalty as the specification words it, over the integers.
EffectiveRoyaltyClaim(rec, now) ==
    IF HasFlag(rec.flags, FLAG_ROYALTY_WAIVED) THEN 0
    ELSE IF rec.decay_start = 0 \/ now < rec.decay_start THEN rec.royalty_bps
    ELSE Max(rec.royalty_bps
               - ((rec.royalty_bps - rec.floor_bps)
                    * ((now - rec.decay_start) \div 777600)) \div 100,
             rec.floor_bps)

\* C3: for every stored record and every round, current_royalty_bps returns
\* 0 if waived, royalty_bps before decay, else max(decayed, floor_bps); it
\* always returns a value and never aborts.
C3_RoyaltyAlwaysReturns ==
    \A a \in DOMAIN nft :
        /\ current_royalty_bps(nft, a, round) # ABORT
        /\ current_royalty_bps(nft, a, round)
               = EffectiveRoyaltyClaim(nft[a], round)

\* Rounds around and after the start of the decay of a record.
NowSamples(decay_start) ==
    { decay_start - 5, decay_start, decay_start + 30 * 777600,
      decay_start + 60 * 777600, decay_start + 150 * 777600 }

\* C4: for a stored record with decay_start > 0 the effective royalty is
\* non-increasing in now and never below floor_bps, and it is 0 at every now
\* once ROYALTY_WAIVED is set (rounds at which the call aborts have no value
\* to compare).
C4_RoyaltyMonotoneFloorBounded ==
    \A a \in DOMAIN nft :
        nft[a].decay_start > 0 =>
            \A n1, n2 \in NowSamples(nft[a].decay_start) :
                LET r1 == current_royalty_bps(nft, a, n1)
                    r2 == current_royalty_bps(nft, a, n2)
                IN  (r1 # ABORT /\ r2 # ABORT) =>
                        IF HasFlag(nft[a].flags, FLAG_ROYALTY_WAIVED)
                        THEN r1 = 0
                        ELSE /\ r1 >= nft[a].floor_bps
                             /\ n1 <= n2 => r2 <= r1

\* C5: after a successful buy_out_royalty the waiver is permanent: the flag
\* stays set and buyout_price stays 0, no later buy_out_royalty on the asset
\* is accepted, and every later sale of it uses effective royalty 0 (and so
\* adds nothing to total_royalties_paid).
C5_WaiverPermanent ==
    [][\A a \in DOMAIN nft :
          /\ Called("buy_out_royalty", a) =>
                /\ ~HasFlag(nft[a].flags, FLAG_ROYALTY_WAIVED)
                /\ HasFlag(nft'[a].flags, FLAG_ROYALTY_WAIVED)
                /\ nft'[a].buyout_price = 0
          /\ HasFlag(nft[a].flags, FLAG_ROYALTY_WAIVED) =>
                /\ HasFlag(nft'[a].flags, FLAG_ROYALTY_WAIVED)
                /\ nft[a].buyout_price = 0
                /\ nft'[a].buyout_price = 0
                /\ ~Called("buy_out_royalty", a)
                /\ Sold(a) => /\ last'.rbps = 0
                              /\ total_royalties_paid' = total_royalties_paid
      ]_vars

\* C5 witness: an asset whose royalty was bought out has since been sold.
C5_Witness ==
    /\ last.op \in {"buy_nft", "settle_auction"}
    /\ last.rbps = 0
    /\ last.asset \in DOMAIN nft
    /\ HasFlag(nft[last.asset].flags, FLAG_ROYALTY_WAIVED)
    /\ nft[last.asset].royalty_bps > 0
    /\ nft[last.asset].transfers > 0

\* C6: buy_out_royalty is accepted only if buyout_price > 0, ROYALTY_WAIVED
\* is clear and the payment equals buyout_price; it then pays the creator
\* floor(buyout_price * 9500 / 10000) and the treasury the rest, the two
\* payments summing to the payment received.
C6_BuyoutSplit ==
    [][\A a \in CallIds :
          Called("buy_out_royalty", a) =>
              /\ a \in DOMAIN nft
              /\ nft[a].buyout_price > 0
              /\ ~HasFlag(nft[a].flags, FLAG_ROYALTY_WAIVED)
              /\ last'.amount = nft[a].buyout_price
              /\ Len(last'.pay) = 2
              /\ last'.pay[1] = [to |-> nft[a].creator,
                                 amt |-> (nft[a].buyout_price * 9500)
                                             \div 10000]
              /\ last'.pay[2].to = muse_treasury
              /\ last'.pay[1].amt + last'.pay[2].amt = last'.amount
      ]_vars

\* C6 witness: a buy-out of 101 paid 95 to the creator and 6 to the treasury.
C6_Witness ==
    /\ last.op = "buy_out_royalty"
    /\ last.amount = 101
    /\ last.pay = <<[to |-> "alice", amt |-> 95],
                    [to |-> Treasury, amt |-> 6]>>

\* C7: buy_nft is accepted only if the record exists, price > 0, IN_AUCTION
\* and RWA_REDEEMED are clear, an RWA is authenticated, and the payment
\* equals the price exactly; it then adds exactly 1 to transfer_count and
\* exactly price to total_volume.  (A rejected call is no step: no record
\* or counter changes.)
C7_BuyGuardsAndEffect ==
    [][\A a \in CallIds :
          Called("buy_nft", a) =>
              /\ a \in DOMAIN nft
              /\ nft[a].price > 0
              /\ ~HasFlag(nft[a].flags, FLAG_IN_AUCTION)
              /\ ~HasFlag(nft[a].flags, FLAG_RWA_REDEEMED)
              /\ HasFlag(nft[a].flags, FLAG_IS_RWA)
                     => HasFlag(nft[a].flags, FLAG_RWA_AUTH)
              /\ last'.amount = nft[a].price
              /\ nft'[a].transfers = nft[a].transfers + 1
              /\ total_volume' = total_volume + nft[a].price
      ]_vars

\* C7 witness: an authenticated RWA was bought at its list price.
C7_Witness ==
    /\ last.op = "buy_nft"
    /\ last.amount = 999
    /\ HasFlag(nft[last.asset].flags, FLAG_IS_RWA)
    /\ nft[last.asset].transfers = 1
    /\ total_volume = 999

\* C8: an asset minted by mint_rwa is never sold before it is authenticated:
\* while IS_RWA is set and RWA_AUTHENTICATED is clear, transfer_count is 0.
C8_NoSaleBeforeAuthentication ==
    \A a \in DOMAIN nft :
        (HasFlag(nft[a].flags, FLAG_IS_RWA)
             /\ ~HasFlag(nft[a].flags, FLAG_RWA_AUTH))
            => /\ nft[a].transfers = 0
               /\ ~(last.asset = a /\ last.op \in {"buy_nft", "settle_auction"}
                      /\ last.rbps # ABORT)

\* C9: after redeem_physical_asset succeeds no later operation sells the
\* asset: its transfer_count never increases again and no sale of it adds to
\* total_volume.
C9_NoSaleAfterRedemption ==
    [][\A a \in DOMAIN nft :
          HasFlag(nft[a].flags, FLAG_RWA_REDEEMED) =>
              /\ nft'[a].transfers = nft[a].transfers
              /\ ~Sold(a)
      ]_vars

\* C10: validate_physical_asset is accepted only from the authenticator
\* stored in the asset's RWARecord and only while RWA_AUTHENTICATED is
\* clear; it sets the flag, no operation ever clears it, and so it is
\* accepted at most once per asset.
C10_ValidateOnce ==
    [][/\ \A a \in CallIds :
             Called("validate_physical_asset", a) =>
                 /\ a \in DOMAIN rwa
                 /\ a \in DOMAIN nft
                 /\ last'.caller = rwa[a].authenticator
                 /\ ~HasFlag(nft[a].flags, FLAG_RWA_AUTH)
                 /\ HasFlag(nft'[a].flags, FLAG_RWA_AUTH)
       /\ \A a \in DOMAIN nft :
             HasFlag(nft[a].flags, FLAG_RWA_AUTH) =>
                 /\ HasFlag(nft'[a].flags, FLAG_RWA_AUTH)
                 /\ ~Called("validate_physical_asset", a)
      ]_vars

\* C10 witness: an authenticated asset has gone through redemption and an
\* auction settlement and is still authenticated.
C10_Witness ==
    /\ last.op = "settle_auction"
    /\ HasFlag(nft[last.asset].flags, FLAG_RWA_AUTH)
    /\ HasFlag(nft[last.asset].flags, FLAG_RWA_REDEEMED)

\* C11: redeem_physical_asset is accepted only from the custodian stored in
\* the asset's RWARecord, only while RWA_AUTHENTICATED is set and
\* RWA_REDEEMED is clear; it sets RWA_REDEEMED and records the current round
\* as redemption_round; no operation ever clears RWA_REDEEMED, and so it is
\* accepted at most once per asset.
C11_RedeemOnce ==
    [][/\ \A a \in CallIds :
             Called("redeem_physical_asset", a) =>
                 /\ a \in DOMAIN rwa
                 /\ a \in DOMAIN nft
                 /\ last'.caller = rwa[a].custodian
                 /\ HasFlag(nft[a].flags, FLAG_RWA_AUTH)
                 /\ ~HasFlag(nft[a].flags, FLAG_RWA_REDEEMED)
                 /\ HasFlag(nft'[a].flags, FLAG_RWA_REDEEMED)
                 /\ rwa'[a].redemption_round = round
       /\ \A a \in DOMAIN nft :
             HasFlag(nft[a].flags, FLAG_RWA_REDEEMED) =>
                 /\ HasFlag(nft'[a].flags, FLAG_RWA_REDEEMED)
                 /\ ~Called("redeem_physical_asset", a)
                 /\ rwa'[a].redemption_round = rwa[a].redemption_round
      ]_vars

\* C11 witness: the custodian redeemed an authenticated asset at a round
\* later than the one it was minted in, and that round was recorded.
C11_Witness ==
    /\ last.op = "redeem_physical_asset"
    /\ last.caller = "alice"
    /\ round > 1
    /\ rwa[last.asset].redemption_round = round
    /\ HasFlag(nft[last.asset].flags, FLAG_RWA_REDEEMED)
    /\ HasFlag(nft[last.asset].flags, FLAG_RWA_AUTH)

\* C12: place_bid is accepted only if the bid exceeds highest_bid and is at
\* least the reserve_price given to start_auction (the value start_auction
\* leaves in the first field of the AuctionRecord, which no later operation
\* rewrites).
C12_BidRespectsReserve ==
    [][\A a \in CallIds :
          Called("place_bid", a) =>
              /\ a \in DOMAIN auc
              /\ last'.amount > auc[a].highest_bid
              /\ last'.amount >= auc[a].asset_id
      ]_vars

\* C13: every accepted place_bid that displaces a highest bidder emits
\* exactly one payment, to that bidder and of exactly the previous
\* highest_bid, and records the caller and the new amount as highest_bidder
\* and highest_bid; the first bid of an auction emits no payment.
C13_RefundPreviousBidder ==
    [][\A a \in CallIds :
          Called("place_bid", a) =>
              /\ last'.pay =
                     IF auc[a].highest_bidder # ZeroAddress
                     THEN <<[to |-> auc[a].highest_bidder,
                             amt |-> auc[a].highest_bid]>>
                     ELSE <<>>
              /\ auc'[a].highest_bidder = last'.caller
              /\ auc'[a].highest_bid = last'.amount
              /\ last'.xfer = "none"
      ]_vars

\* C13 witness: bob outbid alice's 100 with 150 and alice was refunded 100.
C13_Witness ==
    /\ last.op = "place_bid"
    /\ last.caller = "bob"
    /\ last.amount = 150
    /\ last.pay = <<[to |-> "alice", amt |-> 100]>>
    /\ auc[last.asset].highest_bidder = "bob"
    /\ auc[last.asset].highest_bid = 150

\* C14: an accepted place_bid at round now with end_round - now < 75 sets
\* end_round to its old value + 75, one with end_round - now >= 75 leaves
\* end_round unchanged, and no other field of the AuctionRecord decides it:
\* the test is made on every bid.
C14_AntiSnipe ==
    [][\A a \in CallIds :
          Called("place_bid", a) =>
              auc'[a].end_round =
                  IF auc[a].end_round - round < 75
                  THEN auc[a].end_round + 75
                  ELSE auc[a].end_round
      ]_vars

\* C14 witness: an auction opened at round 1 for 100 rounds took a bid with
\* 50 rounds left (end_round 101 -> 176) and a second one with 25 rounds
\* left (176 -> 251).
C14_Witness ==
    /\ last.op = "place_bid"
    /\ round = 151
    /\ auc[last.asset].end_round = 251
    /\ auc[last.asset].highest_bid = 150

\* C15: a bid is accepted only at a round before end_round and a settlement
\* only at a round at or after it, so in no state can both a place_bid and
\* a settle_auction of the same auction be accepted; and once the round has
\* reached end_round the AuctionRecord stays as it is until it is settled:
\* no bid is accepted and end_round does not move again.
C15_BidBeforeEndSettleAfter ==
    [][\A a \in CallIds :
          /\ Called("place_bid", a) =>
                 /\ a \in DOMAIN auc
                 /\ round < auc[a].end_round
          /\ Called("settle_auction", a) =>
                 /\ a \in DOMAIN auc
                 /\ round >= auc[a].end_round
          /\ \A c1, c2 \in Accounts, m \in BidAmounts, rc \in Receivers :
                 ~(place_bid_accepts(c1, a, m, rc)
                     /\ settle_auction_accepts(c2, a))
          /\ (a \in DOMAIN auc /\ round >= auc[a].end_round) =>
                 /\ ~Called("place_bid", a)
                 /\ a \in DOMAIN auc' =>
                        /\ auc'[a] = auc[a]
                        /\ round' >= auc'[a].end_round
      ]_vars

\* C15 witness: an auction extended by a late bid has reached its end_round
\* with that bid standing and has not been settled yet.
C15_Witness ==
    \E a \in DOMAIN auc :
        /\ auc[a].end_round > 101
        /\ round >= auc[a].end_round
        /\ auc[a].highest_bid > 0

\* C16: settle_auction on an auction without bids sends the asset to the
\* seller recorded by start_auction (bids never change that field), emits no
\* payment, decrements live_auctions by 1 and changes nothing of the asset's
\* record but the IN_AUCTION flag, which is clear afterwards: total_volume,
\* total_royalties_paid, nft_count and transfer_count are unchanged.
C16_SettleWithoutBids ==
    [][\A a \in CallIds :
          /\ Called("start_auction", a) => auc'[a].seller = last'.caller
          /\ Called("place_bid", a) => auc'[a].seller = auc[a].seller
          /\ (Called("settle_auction", a)
                /\ auc[a].highest_bidder = ZeroAddress) =>
                 /\ last'.xfer = auc[a].seller
                 /\ last'.pay = <<>>
                 /\ live_auctions' = live_auctions - 1
                 /\ nft'[a] = [nft[a] EXCEPT !.flags =
                                  IF HasFlag(nft[a].flags, FLAG_IN_AUCTION)
                                  THEN nft[a].flags - FLAG_IN_AUCTION
                                  ELSE nft[a].flags]
                 /\ nft'[a].transfers = nft[a].transfers
                 /\ total_volume' = total_volume
                 /\ total_royalties_paid' = total_royalties_paid
                 /\ nft_count' = nft_count
      ]_vars

\* C16 witness: an auction bob opened drew no bid and was settled by alice;
\* the asset went back to bob and no counter but live_auctions moved.
C16_Witness ==
    /\ last.op = "settle_auction"
    /\ last.caller = "alice"
    /\ last.xfer = "bob"
    /\ last.pay = <<>>
    /\ live_auctions = 0
    /\ total_volume = 0
    /\ nft[last.asset].transfers = 0
    /\ ~HasFlag(nft[last.asset].flags, FLAG_IN_AUCTION)

\* C17: settle_auction on an auction with a bidder runs the distribution on
\* highest_bid with the effective royalty of the settlement round (the
\* platform fee to the treasury first, then the royalty to the co-creators
\* and the creator), pays the recorded seller highest_bid - royalty - fee,
\* transfers the asset to highest_bidder, and adds exactly 1 to
\* transfer_count and exactly highest_bid to total_volume.
C17_SettleWithBidder ==
    [][\A a \in CallIds :
          (Called("settle_auction", a)
             /\ auc[a].highest_bidder # ZeroAddress) =>
              LET bid == auc[a].highest_bid
                  rbps == current_royalty_bps(nft, a, round)
                  royalty == (bid * rbps) \div 10000
                  fee == (bid * 250) \div 10000
                  n == Len(last'.pay)
              IN  /\ last'.rbps = rbps
                  /\ n >= 2
                  /\ last'.pay[1] = [to |-> muse_treasury, amt |-> fee]
                  /\ SumAmt(SubSeq(last'.pay, 2, n - 1)) = royalty
                  /\ last'.pay[n] = [to |-> auc[a].seller,
                                     amt |-> bid - royalty - fee]
                  /\ total_royalties_paid' = total_royalties_paid + royalty
                  /\ last'.xfer = auc[a].highest_bidder
                  /\ nft'[a].transfers = nft[a].transfers + 1
                  /\ total_volume' = total_volume + bid
      ]_vars

\* C18: a successful settle_auction, with or without a bidder, deletes the
\* asset's AuctionRecord and leaves IN_AUCTION clear; while the asset has no
\* AuctionRecord no place_bid and no settle_auction on it is accepted, the
\* flag stays clear and only start_auction creates a record again: every
\* auction is settled at most once.
C18_SettlementIsTerminal ==
    [][\A a \in CallIds :
          /\ Called("settle_auction", a) =>
                 /\ a \in DOMAIN auc
                 /\ a \notin DOMAIN auc'
                 /\ ~HasFlag(nft'[a].flags, FLAG_IN_AUCTION)
          /\ a \notin DOMAIN auc =>
                 /\ ~Called("place_bid", a)
                 /\ ~Called("settle_auction", a)
                 /\ a \in DOMAIN auc' => Called("start_auction", a)
                 /\ (a \in DOMAIN nft /\ ~Called("start_auction", a)) =>
                        ~HasFlag(nft'[a].flags, FLAG_IN_AUCTION)
      ]_vars

\* C18 witness: an auction with a winning bid of 150 has just been settled;
\* the record is gone, the flag is clear and no auction is live.
C18_Witness ==
    /\ last.op = "settle_auction"
    /\ last.amount = 150
    /\ last.asset \notin DOMAIN auc
    /\ ~HasFlag(nft[last.asset].flags, FLAG_IN_AUCTION)
    /\ live_auctions = 0

\* C19: whenever an asset has an AuctionRecord and the round has reached its
\* end_round, settle_auction on it is accepted from every caller.
C19_SettleAlwaysPossible ==
    \A a \in DOMAIN auc :
        round >= auc[a].end_round =>
            \A c \in Accounts : settle_auction_accepts(c, a)

\* C20: start_auction is accepted only if the asset record exists,
\* IN_AUCTION and RWA_REDEEMED are clear and the duration is positive; it
\* then creates the AuctionRecord with end_round = now + duration,
\* highest_bid = 0, the zero address as highest bidder and the caller as
\* seller, sets IN_AUCTION and adds 1 to live_auctions.
C20_StartAuction ==
    [][\A a \in CallIds :
          Called("start_auction", a) =>
              /\ a \in DOMAIN nft
              /\ ~HasFlag(nft[a].flags, FLAG_IN_AUCTION)
              /\ ~HasFlag(nft[a].flags, FLAG_RWA_REDEEMED)
              /\ a \in DOMAIN auc'
              /\ \E d \in Durations :
                     /\ d > 0
                     /\ auc'[a].end_round = round + d
              /\ auc'[a].highest_bid = 0
              /\ auc'[a].highest_bidder = ZeroAddress
              /\ auc'[a].seller = last'.caller
              /\ HasFlag(nft'[a].flags, FLAG_IN_AUCTION)
              /\ live_auctions' = live_auctions + 1
      ]_vars

\* C20 witness: bob opened an auction of 100 rounds at a round after the
\* first; it is the only live auction and has no bid.
C20_Witness ==
    /\ last.op = "start_auction"
    /\ last.caller = "bob"
    /\ round > 1
    /\ auc[last.asset].end_round = round + 100
    /\ auc[last.asset].highest_bid = 0
    /\ auc[last.asset].highest_bidder = ZeroAddress
    /\ auc[last.asset].seller = "bob"
    /\ HasFlag(nft[last.asset].flags, FLAG_IN_AUCTION)
    /\ live_auctions = 1

\* C21: start_auction is accepted only from the asset's owner.  On an asset
\* on which no call has been accepted since its mint no transfer has been
\* emitted, so its owner can only be the account that minted it or, for an
\* RWA, the custodian named as its reserve address: the first call on a
\* freshly minted asset, if it is a start_auction, comes from one of them,
\* and so does the seller it records.
C21_OnlyOwnerStartsAuction ==
    [][\A a \in CallIds :
          (Called("start_auction", a)
             /\ last.op \in {"mint_nft", "mint_rwa"}
             /\ last.asset = a) =>
              /\ \/ last'.caller = nft[a].creator
                 \/ a \in DOMAIN rwa /\ last'.caller = rwa[a].custodian
              /\ \/ auc'[a].seller = nft[a].creator
                 \/ a \in DOMAIN rwa /\ auc'[a].seller = rwa[a].custodian
      ]_vars

\* C22: register_co_creators is accepted only from the creator stored in the
\* asset record and only if the four share_bps sum to at most 10000; it then
\* writes the four slots with the given addresses and shares and accepted 0
\* in every slot, and sets COLLAB_PENDING on the asset record.
C22_RegisterCoCreators ==
    [][\A a \in CallIds :
          Called("register_co_creators", a) =>
              /\ a \in DOMAIN nft
              /\ last'.caller = nft[a].creator
              /\ a \in DOMAIN spl'
              /\ \E sh \in ShareArgs :
                     /\ sh[1] + sh[2] + sh[3] + sh[4] <= 10000
                     /\ \A i \in 1..4 :
                            spl'[a][i] = [address |-> SlotAddrs[i],
                                          share_bps |-> sh[i],
                                          accepted |-> 0]
              /\ HasFlag(nft'[a].flags, FLAG_COLLAB_PENDING)
              /\ \A f \in {FLAG_IS_RWA, FLAG_RWA_AUTH, FLAG_RWA_REDEEMED,
                           FLAG_ROYALTY_WAIVED, FLAG_IN_AUCTION} :
                     HasFlag(nft'[a].flags, f) = HasFlag(nft[a].flags, f)
      ]_vars

\* C22 witness: the creator registered shares 5000/2500/1500/1000 on an
\* asset that is in auction; the slots are pending and both flags are set.
C22_Witness ==
    /\ last.op = "register_co_creators"
    /\ last.caller = "alice"
    /\ spl[last.asset][1] = [address |-> "bob", share_bps |-> 5000,
                             accepted |-> 0]
    /\ spl[last.asset][4] = [address |-> ZeroAddress, share_bps |-> 1000,
                             accepted |-> 0]
    /\ HasFlag(nft[last.asset].flags, FLAG_COLLAB_PENDING)
    /\ HasFlag(nft[last.asset].flags, FLAG_IN_AUCTION)

\* C23: the share_bps of the four slots of every stored CoCreatorSplit sum
\* to at most 10000, and in the distribution of every sale of an asset with
\* a split the four share payments sum to at most total_royalty: the
\* creator remainder is never negative.
C23_SplitSumBounded ==
    /\ \A a \in DOMAIN spl :
           spl[a][1].share_bps + spl[a][2].share_bps
             + spl[a][3].share_bps + spl[a][4].share_bps <= 10000
    /\ (last.op \in {"buy_nft", "settle_auction"}
          /\ last.rbps > 0
          /\ last.asset \in DOMAIN spl) =>
           /\ Len(last.pay) >= 6
           /\ SumAmt(SubSeq(last.pay, 2, 5))
                  <= (last.amount * last.rbps) \div 10000
           /\ \A i \in 1..Len(last.pay) : last.pay[i].amt >= 0

\* C23 witness: a sale at 999 with royalty 1000 bps on an asset whose slots
\* hold 5000/2500/1500/1000: the shares paid 49 + 24 + 14 + 9 = 96 of the
\* royalty of 99 and the creator received the remaining 3.
C23_Witness ==
    /\ last.op = "buy_nft"
    /\ last.asset \in DOMAIN spl
    /\ last.rbps = 1000
    /\ SumAmt(SubSeq(last.pay, 2, 5)) = 96
    /\ last.pay[6] = [to |-> "alice", amt |-> 3]

\* C24: an accepted accept_collaboration sets accepted to 1 in the first
\* slot whose address equals the caller and leaves every other slot, later
\* slots holding the same address included, as it was; it is accepted only
\* if the asset has a CoCreatorSplit holding the caller's address.
C24_AcceptFlipsFirstMatch ==
    [][\A a \in CallIds :
          Called("accept_collaboration", a) =>
              /\ a \in DOMAIN spl
              /\ \E i \in 1..4 :
                     /\ spl[a][i].address = last'.caller
                     /\ \A j \in 1..(i - 1) :
                            spl[a][j].address # last'.caller
                     /\ spl'[a] = [spl[a] EXCEPT ![i].accepted = 1]
      ]_vars

\* C24 as amended: an accepted accept_collaboration sets accepted to 1 in
\* every slot whose address equals the caller and leaves every other slot,
\* and the address and share_bps of every slot, as they were; it is accepted
\* only if the asset has a CoCreatorSplit and at least one slot holds the
\* caller's address.
C24_AcceptFlipsEveryMatch ==
    [][\A a \in CallIds :
          Called("accept_collaboration", a) =>
              /\ a \in DOMAIN spl
              /\ \E i \in 1..4 : spl[a][i].address = last'.caller
              /\ \A i \in 1..4 :
                     spl'[a][i] =
                         IF spl[a][i].address = last'.caller
                         THEN [address |-> spl[a][i].address,
                               share_bps |-> spl[a][i].share_bps,
                               accepted |-> 1]
                         ELSE spl[a][i]
      ]_vars

\* C24 witness: bob, named in slots 2, 3 and 4, accepted once and all three
\* slots are accepted while slot 1 is not.
C24_Witness ==
    /\ last.op = "accept_collaboration"
    /\ last.caller = "bob"
    /\ spl[last.asset][1].accepted = 0
    /\ spl[last.asset][2].accepted = 1
    /\ spl[last.asset][3].accepted = 1
    /\ spl[last.asset][4].accepted = 1

\* C25: once an asset has a CoCreatorSplit no operation removes it or
\* changes the address or the share_bps of any of its slots, and a slot
\* whose accepted flag is 1 keeps it.
C25_SplitWrittenOnce ==
    [][\A a \in DOMAIN spl :
          /\ a \in DOMAIN spl'
          /\ \A i \in 1..4 :
                 /\ spl'[a][i].address = spl[a][i].address
                 /\ spl'[a][i].share_bps = spl[a][i].share_bps
                 /\ spl[a][i].accepted = 1 => spl'[a][i].accepted = 1
      ]_vars

\* C26: every stored AssetRecord, minted by mint_nft or by mint_rwa,
\* satisfies 0 <= floor_bps <= royalty_bps <= 2000.
C26_RoyaltyBounds ==
    \A a \in DOMAIN nft :
        /\ 0 <= nft[a].floor_bps
        /\ nft[a].floor_bps <= nft[a].royalty_bps
        /\ nft[a].royalty_bps <= 2000

\* C27: nft_count always equals the number of stored AssetRecords; it grows
\* by exactly 1 on every accepted mint_nft and mint_rwa and is unchanged by
\* every other step, and no step removes an AssetRecord.
C27_NftCountAppendOnly ==
    [][/\ nft_count = Cardinality(DOMAIN nft)
       /\ nft_count' = Cardinality(DOMAIN nft')
       /\ DOMAIN nft \subseteq DOMAIN nft'
       /\ IF \E a \in PairAssetIds :
                 Called("mint_nft", a) \/ Called("mint_rwa", a)
          THEN /\ nft_count' = nft_count + 1
               /\ last'.asset \notin DOMAIN nft
               /\ last'.asset \in DOMAIN nft'
          ELSE /\ nft_count' = nft_count
               /\ DOMAIN nft' = DOMAIN nft
      ]_vars

\* C27 witness: two assets, one from mint_nft and one from mint_rwa, are
\* stored and counted, and the first has since been sold.
C27_Witness ==
    /\ nft_count = 2
    /\ DOMAIN nft = {1, 2}
    /\ DOMAIN rwa = {2}
    /\ nft[1].transfers = 1
    /\ last.op = "buy_nft"

\* C28: what a sale pays and writes is a function of the state with the
\* accepted flags left out: the payments of every buy_nft and of every
\* settle_auction with a bidder, and the records and counters after it, are
\* given by the sale price, the effective royalty and the addresses and
\* share_bps of the slots alone, and the sale leaves the split record, its
\* accepted flags included, as it was.  Two states that differ only in
\* accepted flags therefore yield the same payments, records and counters.
C28_PaymentIgnoresAcceptance ==
    [][\A a \in CallIds :
          Sold(a) =>
              LET sale_price == last'.amount
                  rbps == current_royalty_bps(nft, a, round)
                  tr == (sale_price * rbps) \div 10000
                  fee == (sale_price * 250) \div 10000
                  k == IF a \in DOMAIN spl THEN 4 ELSE 0
                  shares == [i \in 1..k |->
                                [to |-> spl[a][i].address,
                                 amt |-> (tr * spl[a][i].share_bps)
                                             \div 10000]]
                  paid == SumAmt(shares)
                  dist == IF rbps > 0
                          THEN <<[to |-> muse_treasury, amt |-> fee]>>
                               \o shares
                               \o (IF tr > paid
                                   THEN <<[to |-> nft[a].creator,
                                           amt |-> tr - paid]>>
                                   ELSE <<>>)
                          ELSE <<>>
                  bought == last'.op = "buy_nft"
                  seller == IF bought THEN nft[a].creator ELSE auc[a].seller
              IN  /\ sale_price = IF bought THEN nft[a].price
                                  ELSE auc[a].highest_bid
                  /\ last'.pay = dist \o <<[to |-> seller,
                                            amt |-> sale_price - tr - fee]>>
                  /\ last'.xfer = IF bought THEN last'.caller
                                  ELSE auc[a].highest_bidder
                  /\ spl' = spl
                  /\ rwa' = rwa
                  /\ nft' = [nft EXCEPT
                                ![a].transfers = nft[a].transfers + 1,
                                ![a].flags =
                                    IF HasFlag(nft[a].flags, FLAG_IN_AUCTION)
                                    THEN nft[a].flags - FLAG_IN_AUCTION
                                    ELSE nft[a].flags]
                  /\ total_volume' = total_volume + sale_price
                  /\ total_royalties_paid' =
                         total_royalties_paid + (IF rbps > 0 THEN tr ELSE 0)
                  /\ nft_count' = nft_count
      ]_vars

\* C28 witness: a sale at 999 on an asset whose slot 1 (bob, 5000) is
\* accepted and whose slot 2 (alice, 2500) is not: bob was paid 49 and
\* alice 24.
C28_Witness ==
    /\ last.op \in {"buy_nft", "settle_auction"}
    /\ last.rbps = 1000
    /\ last.amount = 999
    /\ last.asset \in DOMAIN spl
    /\ spl[last.asset][1].accepted = 1
    /\ spl[last.asset][2].accepted = 0
    /\ last.pay[2] = [to |-> "bob", amt |-> 49]
    /\ last.pay[3] = [to |-> "alice", amt |-> 24]

\* C29: no partial effects.  Within a call every guard is evaluated before
\* the first record write: when accept_collaboration reaches a guard, or is
\* rejected, it has written nothing.
C29_GuardsBeforeWrites ==
    "pc" \in DOMAIN last =>
        (last.pc \in {"assert_found", "rejected"} => last.writes = 0)

\* C30: an accepted call on asset a (a mint included, a being the asset it
\* creates) leaves the AssetRecord, AuctionRecord, CoCreatorSplit and
\* RWARecord of every other asset b as they were: none is created, changed
\* or removed.
C30_PerAssetIsolation ==
    [][\A a \in PairAssetIds, b \in PairAssetIds :
          (last'.n # last.n /\ last'.asset = a /\ b # a) =>
              /\ (b \in DOMAIN nft) = (b \in DOMAIN nft')
              /\ (b \in DOMAIN auc) = (b \in DOMAIN auc')
              /\ (b \in DOMAIN spl) = (b \in DOMAIN spl')
              /\ (b \in DOMAIN rwa) = (b \in DOMAIN rwa')
              /\ b \in DOMAIN nft => nft'[b] = nft[b]
              /\ b \in DOMAIN auc => auc'[b] = auc[b]
              /\ b \in DOMAIN spl => spl'[b] = spl[b]
              /\ b \in DOMAIN rwa => rwa'[b] = rwa[b]
      ]_vars

\* C30 witness: asset 1 was bought while asset 2, an RWA, has a split and an
\* open auction; asset 2 has not moved.
C30_Witness ==
    /\ last.op = "buy_nft"
    /\ last.asset = 1
    /\ nft[1].transfers = 1
    /\ 2 \in DOMAIN rwa
    /\ 2 \in DOMAIN spl
    /\ 2 \in DOMAIN auc
    /\ nft[2].transfers = 0
    /\ HasFlag(nft[2].flags, FLAG_IN_AUCTION)
    /\ ~HasFlag(nft[1].flags, FLAG_IN_AUCTION)

\* C31: in the flat contract every accepted bid that displaces a highest
\* bidder B pays B back B's full bid in that same call.
C31_RefundDisplacedBidder ==
    [][ (Called("place_bid", 0) /\ flat.highest_bidder # EmptyBytes)
            => last'.pay = <<Pay(flat.highest_bidder, flat.highest_bid)>>
      ]_vars

\* C32: in the flat contract, once redeem_physical_asset has succeeded and
\* until a new mint, the NFT is locked: no step starts an auction, sells
\* the NFT (total_sales is constant) or leaves it listed.
C32_RedeemedIsLocked ==
    [][ (flat.is_redeemed = 1 /\ flat'.is_redeemed = 1)
            => /\ ~Called("start_auction", 0)
               /\ ~Called("buy_nft", 0)
               /\ flat'.total_sales = flat.total_sales
               /\ flat'.is_listed = 0
      ]_vars

\* The flat state f is a physical-asset NFT that is not yet authenticated.
v2_unauthenticated(f) == f.is_physical_asset = 1 /\ f.is_authenticated = 0

\* C33: in the flat contract an NFT minted by mint_nft_rwa is not active
\* before validate_physical_asset: while is_physical_asset = 1 and
\* is_authenticated = 0 it is not listed, no auction is open, and no step
\* sells it (no buy_nft, no settlement, total_sales constant).
C33_InactiveUntilValidated ==
    [][ /\ v2_unauthenticated(flat) =>
              /\ flat.is_listed = 0
              /\ flat.auction_end_round = 0
              /\ ~Called("buy_nft", 0)
              /\ ~Called("settle_auction", 0)
              /\ flat'.total_sales = flat.total_sales
        /\ v2_unauthenticated(flat') =>
              /\ flat'.is_listed = 0
              /\ flat'.auction_end_round = 0
      ]_vars

\* An RWA twin minted over an NFT that was already sold once, a co-creator
\* having accepted while it waits for its authenticator.
C33_Witness ==
    /\ v2_unauthenticated(flat)
    /\ flat.total_sales >= 1
    /\ last.op = "accept_collaboration"

\* C34: live_auctions equals the number of stored AuctionRecords before and
\* after every step (so it never goes below 0); it changes only by +1 in an
\* accepted start_auction and by -1 in an accepted settle_auction, and each
\* of those two calls does change it.
C34_LiveAuctionsCountsRecords ==
    [][ /\ live_auctions = Cardinality(DOMAIN auc)
        /\ live_auctions' = Cardinality(DOMAIN auc')
        /\ live_auctions' >= 0
        /\ (\E a \in PairAssetIds : Called("start_auction", a))
               <=> live_auctions' = live_auctions + 1
        /\ (\E a \in PairAssetIds : Called("settle_auction", a))
               <=> live_auctions' = live_auctions - 1
        /\ live_auctions' \in {live_auctions - 1, live_auctions,
                              live_auctions + 1}
      ]_vars

\* An auction has just been settled after a redemption had cleared its
\* asset's IN_AUCTION flag: its record is gone and the count is back at 0.
C34_Witness ==
    /\ last.op = "settle_auction"
    /\ live_auctions = 0
    /\ last.asset \in DOMAIN nft
    /\ last.asset \notin DOMAIN auc
    /\ HasFlag(nft[last.asset].flags, FLAG_RWA_REDEEMED)

\* C35: an asset's IN_AUCTION flag is set exactly when an AuctionRecord
\* exists for it.
C35_FlagIffAuctionRecord ==
    \A a \in DOMAIN nft :
        HasFlag(nft[a].flags, FLAG_IN_AUCTION) <=> a \in DOMAIN auc

\* C36: bid escrow is conserved.  An auction opens with nothing escrowed
\* (highest_bid 0); every accepted bid adds its payment and subtracts the
\* refund it emits, and the result is the new highest_bid; no other call
\* changes the highest_bid of an open auction.  So what the application
\* holds for an open auction is its highest_bid.  A settlement with a
\* bidder distributes from exactly that amount: the sale amount it counts
\* into total_volume is the highest_bid, its payments are those of a sale
\* at that price and never add up to more.
C36_BidEscrowConserved ==
    [][ \A a \in CallIds :
          /\ Called("start_auction", a) =>
                 auc'[a].highest_bid = 0 /\ last'.pay = <<>>
          /\ Called("place_bid", a) =>
                 auc[a].highest_bid + last'.amount - SumAmt(last'.pay)
                     = auc'[a].highest_bid
          /\ (a \in DOMAIN auc /\ ~Called("place_bid", a)
                               /\ ~Called("settle_auction", a)) =>
                 /\ a \in DOMAIN auc'
                 /\ auc'[a].highest_bid = auc[a].highest_bid
          /\ (Called("settle_auction", a)
                  /\ auc[a].highest_bidder # ZeroAddress) =>
                 /\ last'.amount = auc[a].highest_bid
                 /\ total_volume' = total_volume + auc[a].highest_bid
                 /\ last'.pay = sale_payments(a, auc[a].highest_bid,
                                              last'.rbps, auc[a].seller)
                 /\ SumAmt(last'.pay) <= auc[a].highest_bid
      ]_vars

\* alice's bid of 150 displaces bob's bid of 100: 100 goes back to bob and
\* 150 stays escrowed.
C36_Witness ==
    /\ last.op = "place_bid"
    /\ last.caller = "alice"
    /\ last.amount = 150
    /\ last.pay = <<Pay("bob", 100)>>
    /\ auc[last.asset].highest_bid = 150

\* C37: while an AuctionRecord lives, every accepted bid strictly raises
\* highest_bid, no step lowers end_round or changes the seller, and
\* highest_bidder is the zero address exactly when highest_bid is 0.
C37_AuctionMonotone ==
    [][ \A a \in CallIds :
          /\ a \in DOMAIN auc =>
                 (auc[a].highest_bidder = ZeroAddress
                      <=> auc[a].highest_bid = 0)
          /\ a \in DOMAIN auc' =>
                 (auc'[a].highest_bidder = ZeroAddress
                      <=> auc'[a].highest_bid = 0)
          /\ (a \in DOMAIN auc /\ a \in DOMAIN auc') =>
                 /\ Called("place_bid", a) =>
                        auc'[a].highest_bid > auc[a].highest_bid
                 /\ auc'[a].highest_bid >= auc[a].highest_bid
                 /\ auc'[a].end_round >= auc[a].end_round
                 /\ auc'[a].seller = auc[a].seller
      ]_vars

\* Two bids in bob's auction, one of them within its last ANTI_SNIPE_ROUNDS
\* rounds: highest_bid and end_round have both been raised.
C37_Witness ==
    /\ last.op = "place_bid"
    /\ last.pay # <<>>
    /\ auc[last.asset].seller = "bob"
    /\ auc[last.asset].highest_bid = 150
    /\ auc[last.asset].end_round > round + ANTI_SNIPE_ROUNDS

\* C38: the effective royalty used by every accepted sale (buy_nft, or
\* settle_auction with a bidder) is at most MAX_ROYALTY_BPS, RWA records
\* with floor_bps > royalty_bps included, and five times the royalties paid
\* never exceed the volume traded.
C38_RoyaltyCapOnSales ==
    /\ (last.op \in {"buy_nft", "settle_auction"} /\ last.rbps # ABORT) =>
           /\ 0 <= last.rbps
           /\ last.rbps <= MAX_ROYALTY_BPS
    /\ 5 * total_royalties_paid <= total_volume

\* An RWA record whose floor exceeds its royalty has just been sold.
C38_Witness ==
    /\ last.op \in {"buy_nft", "settle_auction"}
    /\ last.rbps # ABORT
    /\ last.asset \in DOMAIN rwa
    /\ nft[last.asset].floor_bps > nft[last.asset].royalty_bps
    /\ nft[last.asset].transfers >= 1
    /\ total_volume > 0

\* C39: the RWA lifecycle flags are consistent after every step:
\* RWA_REDEEMED implies RWA_AUTHENTICATED, RWA_AUTHENTICATED implies IS_RWA,
\* IS_RWA holds exactly when the asset has an RWARecord, and
\* redemption_round is not 0 exactly when RWA_REDEEMED is set; no step
\* clears one of the three flags, removes a record or changes the stored
\* custodian or authenticator.
C39_RwaLifecycleConsistent ==
    [][ \A a \in PairAssetIds :
          /\ a \in DOMAIN rwa' => a \in DOMAIN nft'
          /\ a \in DOMAIN nft' =>
                 /\ HasFlag(nft'[a].flags, FLAG_RWA_REDEEMED)
                        => HasFlag(nft'[a].flags, FLAG_RWA_AUTH)
                 /\ HasFlag(nft'[a].flags, FLAG_RWA_AUTH)
                        => HasFlag(nft'[a].flags, FLAG_IS_RWA)
                 /\ HasFlag(nft'[a].flags, FLAG_IS_RWA) <=> a \in DOMAIN rwa'
                 /\ a \in DOMAIN rwa' =>
                        (rwa'[a].redemption_round # 0
                             <=> HasFlag(nft'[a].flags, FLAG_RWA_REDEEMED))
          /\ a \in DOMAIN nft =>
                 /\ a \in DOMAIN nft'
                 /\ \A f \in {FLAG_IS_RWA, FLAG_RWA_AUTH, FLAG_RWA_REDEEMED} :
                        HasFlag(nft[a].flags, f) => HasFlag(nft'[a].flags, f)
          /\ a \in DOMAIN rwa =>
                 /\ a \in DOMAIN rwa'
                 /\ rwa'[a].custodian = rwa[a].custodian
                 /\ rwa'[a].authenticator = rwa[a].authenticator
      ]_vars

\* A redeemed RWA next to a plain NFT that has just been bought: the first
\* carries the three flags and its redemption round, the second none.
C39_Witness ==
    /\ DOMAIN nft = PairAssetIds
    /\ \E a \in DOMAIN rwa, b \in DOMAIN nft \ DOMAIN rwa :
           /\ HasFlag(nft[a].flags, FLAG_RWA_REDEEMED)
           /\ rwa[a].redemption_round = round
           /\ ~HasFlag(nft[b].flags, FLAG_IS_RWA)
           /\ last.op = "buy_nft"
           /\ last.asset = b
====
